---- MODULE Spec2Model ----
(***************************************************************************)
(* The GitHub API access layer of repo-dashboard (services/github.ts):     *)
(* the TTL cache, the rate-limit tracker, the authenticated request        *)
(* executor, the paginator and the normalizers, as one state machine.      *)
(*                                                                         *)
(* JavaScript runs one continuation at a time, so every action below is    *)
(* the code between two suspension points (await fetch, await              *)
(* response.text(), await response.json()).                                *)
(***************************************************************************)
EXTENDS Integers, Sequences, FiniteSets, TLC

VARIABLES
    now,            \* Date.now(), in milliseconds
    ticks,          \* number of clock advances so far (bounds the run)
    store,          \* Cache.store: key -> [data, expiresAt]
    rateLimitInfo,  \* the module-level tracker {remaining, reset, limit}
    calls,          \* one record per normalizer invocation slot
    network,        \* fetches in flight and responses whose body is awaited
    history,        \* what clearCache() overtook (no counterpart in the code)
    process,        \* GITHUB_TOKEN, the singleton, the server, its last reply
    snapshot,       \* the object a caller got from getRateLimitInfo()
    browser         \* the frontend: localStorage and the state of App

vars == <<now, ticks, store, rateLimitInfo, calls, network, history,
          process, snapshot, browser>>

\* What the service itself does not touch.
outside == <<process, snapshot, browser>>

----------------------------------------------------------------------------
(* Bounds of the model *)

ShortLen == 37
TickMs == 500
StartTime == 1000
MaxTicks == 3

(* Program constants *)

CACHE_TTL_MS == 5 * 60 * 1000
perPage == 100
InitialRemaining == 5000
InitialResetDelay == 3600000
InitialLimit == 5000

\* The invocation slots: at most two normalizer invocations overlap.
Calls == {1, 2}

----------------------------------------------------------------------------
(* Cache *)

\* An optional value is a sequence of length 0 (null) or 1.
None == <<>>
Some(v) == <<v>>

CacheExpiredAtBoundary(entry, t) == t >= entry.expiresAt

CacheExpired(entry, t) == t > entry.expiresAt

\* A get that reports an empty list as absent.
CacheGetEmptyIsAbsent(st, key, t) ==
    IF key \notin DOMAIN st
    THEN [store |-> st, value |-> None]
    ELSE IF CacheExpired(st[key], t)
         THEN [store |-> [k \in DOMAIN st \ {key} |-> st[k]], value |-> None]
         ELSE [store |-> st,
               value |-> IF st[key].data = <<>> THEN None ELSE Some(st[key].data)]

\* A get that sweeps every expired entry out of the store.
CacheGetSweeps(st, key, t) ==
    LET live == {k \in DOMAIN st : ~CacheExpired(st[k], t)}
    IN  [store |-> [k \in live |-> st[k]],
         value |-> IF key \in live THEN Some(st[key].data) ELSE None]

\* get(key) at time t: the store afterwards and the value returned.
\* A get that renews the expiry of the entry it returns (sliding expiry).
CacheGetSlides(st, key, t) ==
    IF key \notin DOMAIN st
    THEN [store |-> st, value |-> None]
    ELSE IF CacheExpired(st[key], t)
         THEN [store |-> [k \in DOMAIN st \ {key} |-> st[k]], value |-> None]
         ELSE [store |-> [st EXCEPT ![key].expiresAt = t + CACHE_TTL_MS],
               value |-> Some(st[key].data)]

CacheGet(st, key, t) ==
    IF key \notin DOMAIN st
    THEN [store |-> st, value |-> None]
    ELSE IF CacheExpired(st[key], t)
         THEN [store |-> [k \in DOMAIN st \ {key} |-> st[k]], value |-> None]
         ELSE [store |-> st, value |-> Some(st[key].data)]

CacheSet(st, key, data, t) ==
    [k \in DOMAIN st \cup {key} |->
        IF k = key THEN [data |-> data, expiresAt |-> t + CACHE_TTL_MS]
        ELSE st[k]]

CacheClear(st) == [k \in {} |-> None]

----------------------------------------------------------------------------
(* Rate limit tracker and the pieces of request() *)

\* A header value is a sequence of characters; a header that is not sent is
\* not in the domain of the response's headers.
Digits == <<"0", "1", "2", "3", "4", "5", "6", "7", "8", "9">>
IsDigit(ch) == \E d \in 1..10 : Digits[d] = ch
DigitVal(ch) == (CHOOSE d \in 1..10 : Digits[d] = ch) - 1

NaN == "NaN"
IsNumber(v) == v \in Int

RECURSIVE ParseDigits(_, _, _)
ParseDigits(s, i, acc) ==
    IF i > Len(s) \/ ~IsDigit(s[i]) THEN acc
    ELSE ParseDigits(s, i + 1, acc * 10 + DigitVal(s[i]))

\* parseInt(s, 10): optional sign, then the longest run of digits.
ParseInt(s) ==
    LET signed == Len(s) > 0 /\ s[1] \in {"-", "+"}
        start  == IF signed THEN 2 ELSE 1
    IN  IF start > Len(s) \/ ~IsDigit(s[start]) THEN NaN
        ELSE IF signed /\ s[1] = "-" THEN 0 - ParseDigits(s, start, 0)
        ELSE ParseDigits(s, start, 0)

\* response.headers.get(name) is truthy: the header is sent and not empty.
HeaderSet(headers, name) == name \in DOMAIN headers /\ Len(headers[name]) > 0

\* InitialRateLimitInfo with no quota assumed at startup.
InitialRateLimitInfoSpent(t) ==
    [remaining |-> 0, reset |-> t + InitialResetDelay, limit |-> InitialLimit]

\* Lines 54-58: the tracker of a process started at time t.
InitialRateLimitInfo(t) ==
    [remaining |-> InitialRemaining, reset |-> t + InitialResetDelay,
     limit |-> InitialLimit]

\* UpdateRateLimit testing the parsed number instead of the header text on
\* line 185, so that a remaining of 0 is not recorded.
UpdateRateLimitZeroFalsy(rl, headers) ==
    [remaining |-> IF HeaderSet(headers, "x-ratelimit-remaining")
                      /\ ParseInt(headers["x-ratelimit-remaining"]) # 0
                   THEN ParseInt(headers["x-ratelimit-remaining"])
                   ELSE rl.remaining,
     reset     |-> IF HeaderSet(headers, "x-ratelimit-reset")
                   THEN ParseInt(headers["x-ratelimit-reset"]) * 1000
                   ELSE rl.reset,
     limit     |-> IF HeaderSet(headers, "x-ratelimit-limit")
                   THEN ParseInt(headers["x-ratelimit-limit"])
                   ELSE rl.limit]

\* Lines 181-187: the tracker after a response with these headers.
UpdateRateLimit(rl, headers) ==
    [remaining |-> IF HeaderSet(headers, "x-ratelimit-remaining")
                   THEN ParseInt(headers["x-ratelimit-remaining"])
                   ELSE rl.remaining,
     reset     |-> IF HeaderSet(headers, "x-ratelimit-reset")
                   THEN ParseInt(headers["x-ratelimit-reset"]) * 1000
                   ELSE rl.reset,
     limit     |-> IF HeaderSet(headers, "x-ratelimit-limit")
                   THEN ParseInt(headers["x-ratelimit-limit"])
                   ELSE rl.limit]

\* Math.ceil(a / b) for b > 0.
Ceil(a, b) == 0 - ((0 - a) \div b)

RateLimitMessage(seconds) ==
    "GitHub API rate limit exceeded. Resets in " \o ToString(seconds) \o " seconds."

\* Gate with the comparison of line 157 off by one (remaining < 0).
GateOffByOne(rl, t) ==
    IF IsNumber(rl.remaining) /\ rl.remaining < 0
    THEN LET waitTime == rl.reset - t
         IN  IF IsNumber(waitTime) /\ waitTime > 0
             THEN Some([name |-> "Error",
                        message |-> RateLimitMessage(Ceil(waitTime, 1000))])
             ELSE None
    ELSE None

\* Gate without the test of line 159: closed for as long as remaining <= 0.
GateIgnoresReset(rl, t) ==
    IF IsNumber(rl.remaining) /\ rl.remaining <= 0
    THEN Some([name |-> "Error",
               message |-> RateLimitMessage(Ceil(rl.reset - t, 1000))])
    ELSE None

\* Lines 157-164: the error thrown by the gate at time t, or None.
Gate(rl, t) ==
    IF IsNumber(rl.remaining) /\ rl.remaining <= 0
    THEN LET waitTime == rl.reset - t
         IN  IF IsNumber(waitTime) /\ waitTime > 0
             THEN Some([name |-> "Error",
                        message |-> RateLimitMessage(Ceil(waitTime, 1000))])
             ELSE None
    ELSE None

baseUrl == "https://api.github.com"

\* Lines 166-168; every endpoint the service builds starts with "/".
ResolveUrl(endpoint) == baseUrl \o endpoint

StatusText(status) ==
    CASE status = 200 -> "OK"
      [] status = 403 -> "Forbidden"
      [] status = 404 -> "Not Found"
      [] OTHER -> ""

ResponseOk(status) == status >= 200 /\ status <= 299

\* A body is a text that JSON.parse accepts (valid) with the value it
\* yields, or a text it rejects.
JNull == [type |-> "null"]
JObject(fields) == [type |-> "object", fields |-> fields]
JArray(items) == [type |-> "array", items |-> items]
ValidBody(json) == [valid |-> TRUE, json |-> json]
InvalidBody == [valid |-> FALSE, json |-> JNull]

\* parsed.message is truthy.
HasMessage(json) ==
    /\ json.type = "object"
    /\ "message" \in DOMAIN json.fields
    /\ json.fields["message"] # ""

\* UpstreamError testing that the field exists instead of its truth on
\* line 194, so that an empty message is used too.
UpstreamErrorAnyMessage(status, body) ==
    LET generic == "GitHub API error: " \o ToString(status) \o " " \o StatusText(status)
    IN  [name |-> "Error",
         message |-> IF body.valid /\ body.json.type = "object"
                        /\ "message" \in DOMAIN body.json.fields
                     THEN "GitHub API error: " \o body.json.fields["message"]
                     ELSE generic]

\* Lines 189-201: the error thrown for a non-success response.
UpstreamError(status, body) ==
    LET generic == "GitHub API error: " \o ToString(status) \o " " \o StatusText(status)
    IN  [name |-> "Error",
         message |-> IF body.valid /\ HasMessage(body.json)
                     THEN "GitHub API error: " \o body.json.fields["message"]
                     ELSE generic]

\* response.json() rejects with the parser's SyntaxError.
DecodeError == [name |-> "SyntaxError", message |-> "Unexpected token in JSON"]

----------------------------------------------------------------------------
(* Normalizers: cache keys, endpoints and the kind-specific mappings *)

\* A normalizer invocation: getOrganizationRepos(owner) has kind "repos" and
\* no repo; the other three take (owner, repo).
Request(kind, owner, repo) == [kind |-> kind, owner |-> owner, repo |-> repo]

\* A key that leaves out the resource kind.
CacheKeyWithoutKind(req) == req.owner \o "/" \o req.repo

CacheKey(req) ==
    IF req.kind = "repos" THEN "repos:" \o req.owner
    ELSE req.kind \o ":" \o req.owner \o "/" \o req.repo

Endpoint(req) ==
    CASE req.kind = "repos"    -> "/orgs/" \o req.owner \o "/repos"
      [] req.kind = "issues"   -> "/repos/" \o req.owner \o "/" \o req.repo \o "/issues?state=all"
      [] req.kind = "pulls"    -> "/repos/" \o req.owner \o "/" \o req.repo \o "/pulls?state=all"
      [] req.kind = "branches" -> "/repos/" \o req.owner \o "/" \o req.repo \o "/branches"

\* endpoint.includes('?'): only the issues and pulls endpoints carry a query.
EndpointHasQuery(req) == req.kind \in {"issues", "pulls"}

\* Lines 215-216.
PageUrl(req, page) ==
    Endpoint(req) \o (IF EndpointHasQuery(req) THEN "&" ELSE "?")
        \o "per_page=" \o ToString(perPage) \o "&page=" \o ToString(page)

\* Line 362.
CommitUrl(req, sha) ==
    "/repos/" \o req.owner \o "/" \o req.repo \o "/commits/" \o sha

NormalizeRepo(req, r) ==
    [id |-> r.id, name |-> r.name, fullName |-> r.full_name]

NormalizeIssue(req, issue) ==
    [id |-> "issue-" \o req.owner \o "-" \o req.repo \o "-" \o ToString(issue.id),
     type |-> "issue",
     repository |-> req.repo,
     repositoryFullName |-> req.owner \o "/" \o req.repo,
     createdAt |-> issue.created_at,
     updatedAt |-> issue.updated_at,
     state |-> issue.state,
     number |-> issue.number]

\* NormalizePull that passes the raw state through.
NormalizePullRawState(req, pr) ==
    [id |-> "pr-" \o req.owner \o "-" \o req.repo \o "-" \o ToString(pr.id),
     type |-> "pr",
     repository |-> req.repo,
     repositoryFullName |-> req.owner \o "/" \o req.repo,
     createdAt |-> pr.created_at,
     updatedAt |-> pr.updated_at,
     state |-> pr.state,
     number |-> pr.number,
     isDraft |-> pr.draft]

NormalizePull(req, pr) ==
    [id |-> "pr-" \o req.owner \o "-" \o req.repo \o "-" \o ToString(pr.id),
     type |-> "pr",
     repository |-> req.repo,
     repositoryFullName |-> req.owner \o "/" \o req.repo,
     createdAt |-> pr.created_at,
     updatedAt |-> pr.updated_at,
     state |-> IF pr.merged_at # None THEN "merged" ELSE pr.state,
     number |-> pr.number,
     isDraft |-> pr.draft]

\* NormalizeBranch giving a branch the state "open" and leaving createdAt
\* empty.
NormalizeBranchWithState(req, branch, commit) ==
    LET lastCommitDate == IF commit = None THEN "" ELSE commit[1].commit.committer.date
    IN  [id |-> "branch-" \o req.owner \o "-" \o req.repo \o "-" \o branch.name,
         type |-> "branch",
         repository |-> req.repo,
         repositoryFullName |-> req.owner \o "/" \o req.repo,
         title |-> branch.name,
         author |-> "",
         labels |-> <<>>,
         assignees |-> <<>>,
         createdAt |-> "",
         updatedAt |-> lastCommitDate,
         state |-> "open",
         url |-> "https://github.com/" \o req.owner \o "/" \o req.repo \o "/tree/" \o branch.name]

\* NormalizeBranch dating the branch by the author date of its head commit.
NormalizeBranchAuthorDate(req, branch, commit) ==
    LET lastCommitDate == IF commit = None THEN "" ELSE commit[1].commit.author.date
    IN  [id |-> "branch-" \o req.owner \o "-" \o req.repo \o "-" \o branch.name,
         type |-> "branch",
         repository |-> req.repo,
         repositoryFullName |-> req.owner \o "/" \o req.repo,
         title |-> branch.name,
         author |-> "",
         labels |-> <<>>,
         assignees |-> <<>>,
         createdAt |-> lastCommitDate,
         updatedAt |-> lastCommitDate,
         url |-> "https://github.com/" \o req.owner \o "/" \o req.repo \o "/tree/" \o branch.name]

\* commit is None when the lookup failed (line 389).
NormalizeBranch(req, branch, commit) ==
    LET lastCommitDate == IF commit = None THEN "" ELSE commit[1].commit.committer.date
    IN  [id |-> "branch-" \o req.owner \o "-" \o req.repo \o "-" \o branch.name,
         type |-> "branch",
         repository |-> req.repo,
         repositoryFullName |-> req.owner \o "/" \o req.repo,
         title |-> branch.name,
         author |-> "",
         labels |-> <<>>,
         assignees |-> <<>>,
         createdAt |-> lastCommitDate,
         updatedAt |-> lastCommitDate,
         url |-> "https://github.com/" \o req.owner \o "/" \o req.repo \o "/tree/" \o branch.name]

\* The predicate of line 274, for Array.prototype.filter (SelectSeq).
NotPullRequest(issue) == issue.pull_request = None

\* FilterIssues that lets every record through.
FilterIssuesKeepsAll(issues) == issues

FilterIssues(issues) == SelectSeq(issues, NotPullRequest)

\* The list a repos / issues / pulls normalizer stores and returns for the
\* raw records of all pages.
Normalize(req, raw) ==
    CASE req.kind = "repos"  -> [i \in 1..Len(raw) |-> NormalizeRepo(req, raw[i])]
      [] req.kind = "issues" ->
            LET filteredIssues == FilterIssues(raw)
            IN  [i \in 1..Len(filteredIssues) |-> NormalizeIssue(req, filteredIssues[i])]
      [] req.kind = "pulls"  -> [i \in 1..Len(raw) |-> NormalizePull(req, raw[i])]

\* Lines 394-412: branches joined with the outcome of their commit lookups.
NormalizeBranches(req, branches, commits) ==
    [i \in 1..Len(branches) |-> NormalizeBranch(req, branches[i], commits[i])]

----------------------------------------------------------------------------
(* The upstream API: what a response may carry *)

IsoDate(n) == "2024-01-" \o ToString(10 + n) \o "T00:00:00Z"

\* The n-th record of a collection, in upstream order.
RawRecord(req, n) ==
    CASE req.kind = "repos" ->
            [id |-> n, name |-> "r" \o ToString(n),
             full_name |-> req.owner \o "/r" \o ToString(n)]
      [] req.kind = "issues" ->
            [id |-> n, number |-> n,
             state |-> IF n % 2 = 0 THEN "open" ELSE "closed",
             created_at |-> IsoDate(1), updated_at |-> IsoDate(2),
             pull_request |-> IF n % 3 = 0 THEN Some("pull") ELSE None]
      [] req.kind = "pulls" ->
            [id |-> n, number |-> n,
             state |-> IF n % 2 = 0 THEN "open" ELSE "closed",
             created_at |-> IsoDate(1), updated_at |-> IsoDate(2),
             \* merged ones among the open and among the closed
             merged_at |-> IF n % 3 = 1 THEN Some(IsoDate(3)) ELSE None,
             draft |-> n % 5 = 0]
      [] req.kind = "branches" ->
            \* br2 was branched off the head of br1: same head commit
            [name |-> "br" \o ToString(n),
             commit |-> [sha |-> "sha" \o ToString((n + 1) \div 2)]]

\* The body of page `page` when the upstream serves n records on it.
RawPage(req, page, n) == [i \in 1..n |-> RawRecord(req, (page - 1) * perPage + i)]

\* The body of page `page` when one entity was added at the head of the
\* collection after the preceding page was served: every record has moved
\* down by one place, and the page begins with the record that ended the
\* preceding page.
DriftedPage(req, page, n) ==
    [i \in 1..n |-> RawRecord(req, (page - 1) * perPage + i - 1)]

\* The lengths an upstream may serve for a page: full pages up to
\* maxFullPages, then a short one; a repository has at most maxBranches
\* branches.
Upstream(maxFullPages, shortLens, maxBranches) ==
    [maxFullPages |-> maxFullPages, shortLens |-> shortLens, maxBranches |-> maxBranches]

PageLens(w, req, page) ==
    IF req.kind = "branches" THEN 0..w.maxBranches
    ELSE w.shortLens \cup (IF page <= w.maxFullPages THEN {perPage} ELSE {})

\* The commit object served for a head commit.
CommitRecord(sha) ==
    [sha |-> sha,
     commit |-> [author |-> [date |-> IsoDate(4)], committer |-> [date |-> IsoDate(5)]]]

Optional(name, values) == {<<>>} \cup {name :> v : v \in values}

\* Every combination of the three rate-limit headers, each sent or not.
HeaderChoices(remainings, resets, limits) ==
    {r @@ s @@ l : r \in Optional("x-ratelimit-remaining", remainings),
                   s \in Optional("x-ratelimit-reset", resets),
                   l \in Optional("x-ratelimit-limit", limits)}

NoHeaders == <<>>

ErrorBodies ==
    {InvalidBody, ValidBody(JNull), ValidBody(JObject(<<>>)),
     ValidBody(JObject("message" :> "Not Found"))}

----------------------------------------------------------------------------
(* State of a normalizer invocation *)

\* pc: "idle"   no invocation in this slot
\*     "pages"  inside fetchAllPages, a page request in flight
\*     "fanout" inside Promise.all, commit lookups not all settled
\*     "join"   every lookup settled, the continuation after Promise.all is due
\*     "done"   returned `result`;  "failed"  threw `result`
\*     "replied" the route that made the call sent the response `result`
\* issued, sizes and before are history: the URLs this invocation passed to
\* fetch, in order, the lengths of the pages it was served, and the entry the
\* store held for its key when it was invoked.
IdleCall ==
    [pc |-> "idle", req |-> Request("", "", ""), page |-> 0, results |-> <<>>,
     lookups |-> <<>>, issued |-> <<>>, sizes |-> <<>>, before |-> None,
     result |-> <<>>]

Pending == [settled |-> FALSE, commit |-> None]
Settled(commit) == [settled |-> TRUE, commit |-> commit]

\* A fetch in flight; once it resolved, `status` and `headers` are those of
\* its response and `stage` says how the body is awaited.
Fetch(c, slot, url) ==
    [call |-> c, slot |-> slot, url |-> url, stage |-> "fetch", status |-> 0,
     headers |-> <<>>]

\* The synchronous head of request() (lines 156-178) at time t: the gate's
\* error, or the fetch it starts.
RequestHead(rl, t, endpoint) ==
    LET gate == Gate(rl, t)
    IN  IF gate # None THEN [error |-> gate, url |-> None]
        ELSE [error |-> None, url |-> Some(ResolveUrl(endpoint))]

\* RequestPage that also starts the fetch of the following page, without
\* awaiting the first.
RequestPagePrefetch(cr, c, rl, t) ==
    LET head == RequestHead(rl, t, PageUrl(cr.req, cr.page))
        next == ResolveUrl(PageUrl(cr.req, cr.page + 1))
    IN  IF head.error # None
        THEN [call |-> [cr EXCEPT !.pc = "failed", !.result = head.error[1]],
              sent |-> {}]
        ELSE [call |-> [cr EXCEPT !.pc = "pages",
                                  !.issued = Append(Append(@, head.url[1]), next)],
              sent |-> {Fetch(c, 0, head.url[1]), Fetch(c, 0, next)}]

\* RequestPage that ends the loop on a refusal and returns the pages it has,
\* as a truncated list.
RequestPageTruncates(cr, c, rl, t) ==
    LET head == RequestHead(rl, t, PageUrl(cr.req, cr.page))
    IN  IF head.error # None
        THEN [call |-> [cr EXCEPT !.pc = "done", !.result = Normalize(cr.req, cr.results)],
              sent |-> {}]
        ELSE [call |-> [cr EXCEPT !.pc = "pages",
                                  !.issued = Append(@, head.url[1])],
              sent |-> {Fetch(c, 0, head.url[1])}]

\* fetchAllPages asks for page cr.page (lines 215-217): the invocation and the
\* fetches added to the network.
RequestPage(cr, c, rl, t) ==
    LET head == RequestHead(rl, t, PageUrl(cr.req, cr.page))
    IN  IF head.error # None
        THEN [call |-> [cr EXCEPT !.pc = "failed", !.result = head.error[1]],
              sent |-> {}]
        ELSE [call |-> [cr EXCEPT !.pc = "pages",
                                  !.issued = Append(@, head.url[1])],
              sent |-> {Fetch(c, 0, head.url[1])}]

\* FanOut that counts the lookups it starts against the tracker's remaining
\* and starts no more than that.
FanOutWithinQuota(cr, c, rl, t) ==
    LET n == Len(cr.results)
        head(i) == RequestHead(rl, t, CommitUrl(cr.req, cr.results[i].commit.sha))
        started == {i \in 1..n : head(i).error = None /\ i <= rl.remaining}
        urls == [j \in 1..Cardinality(started) |-> head(j).url[1]]
        lookups == [i \in 1..n |-> IF i \in started THEN Pending ELSE Settled(None)]
    IN  [call |-> [cr EXCEPT !.pc = IF started = {} THEN "join" ELSE "fanout",
                             !.lookups = lookups,
                             !.issued = @ \o urls],
         sent |-> {Fetch(c, i, head(i).url[1]) : i \in started}]

\* Lines 382-392, up to the first await of every callback: one
\* getCommitDetails per branch, each passing the gate on its own.
FanOut(cr, c, rl, t) ==
    LET n == Len(cr.results)
        head(i) == RequestHead(rl, t, CommitUrl(cr.req, cr.results[i].commit.sha))
        started == {i \in 1..n : head(i).error = None}
        Passed(h) == h.error = None
        passed == SelectSeq([i \in 1..n |-> head(i)], Passed)
        urls == [j \in 1..Len(passed) |-> passed[j].url[1]]
        lookups == [i \in 1..n |-> IF i \in started THEN Pending ELSE Settled(None)]
    IN  [call |-> [cr EXCEPT !.pc = IF started = {} THEN "join" ELSE "fanout",
                             !.lookups = lookups,
                             !.issued = @ \o urls],
         sent |-> {Fetch(c, i, head(i).url[1]) : i \in started}]

\* AfterPage with the loop ended by an empty page only (data.length === 0).
AfterPageStopsOnEmpty(cr, c, data, st, rl, t) ==
    LET got == [cr EXCEPT !.results = @ \o data, !.sizes = Append(@, Len(data))]
    IN  IF Len(data) = 0
        THEN IF cr.req.kind = "branches"
             THEN LET f == FanOut(got, c, rl, t)
                  IN  [call |-> f.call, sent |-> f.sent, store |-> st]
             ELSE LET normalized == Normalize(cr.req, got.results)
                  IN  [call |-> [got EXCEPT !.pc = "done", !.result = normalized],
                       sent |-> {},
                       store |-> CacheSet(st, CacheKey(cr.req), normalized, t)]
        ELSE LET r == RequestPage([got EXCEPT !.page = @ + 1], c, rl, t)
             IN  [call |-> r.call, sent |-> r.sent, store |-> st]

\* AfterPage with a cap of two pages on the loop.
AfterPageCapped(cr, c, data, st, rl, t) ==
    LET got == [cr EXCEPT !.results = @ \o data, !.sizes = Append(@, Len(data))]
    IN  IF Len(data) < perPage \/ cr.page >= 2
        THEN IF cr.req.kind = "branches"
             THEN LET f == FanOut(got, c, rl, t)
                  IN  [call |-> f.call, sent |-> f.sent, store |-> st]
             ELSE LET normalized == Normalize(cr.req, got.results)
                  IN  [call |-> [got EXCEPT !.pc = "done", !.result = normalized],
                       sent |-> {},
                       store |-> CacheSet(st, CacheKey(cr.req), normalized, t)]
        ELSE LET r == RequestPage([got EXCEPT !.page = @ + 1], c, rl, t)
             IN  [call |-> r.call, sent |-> r.sent, store |-> st]

\* AfterPage that stores what it has after every page.
AfterPageCachesPartial(cr, c, data, st, rl, t) ==
    LET got == [cr EXCEPT !.results = @ \o data, !.sizes = Append(@, Len(data))]
    IN  IF Len(data) < perPage
        THEN IF cr.req.kind = "branches"
             THEN LET f == FanOut(got, c, rl, t)
                  IN  [call |-> f.call, sent |-> f.sent, store |-> st]
             ELSE LET normalized == Normalize(cr.req, got.results)
                  IN  [call |-> [got EXCEPT !.pc = "done", !.result = normalized],
                       sent |-> {},
                       store |-> CacheSet(st, CacheKey(cr.req), normalized, t)]
        ELSE LET r == RequestPage([got EXCEPT !.page = @ + 1], c, rl, t)
             IN  [call |-> r.call, sent |-> r.sent,
                  store |-> CacheSet(st, CacheKey(cr.req),
                                     Normalize(cr.req, got.results), t)]

\* AfterPage whose cache.set appends to the list the entry already holds.
AfterPageMergesEntry(cr, c, data, st, rl, t) ==
    LET got == [cr EXCEPT !.results = @ \o data, !.sizes = Append(@, Len(data))]
        key == CacheKey(cr.req)
        held == IF key \in DOMAIN st THEN st[key].data ELSE <<>>
    IN  IF Len(data) < perPage
        THEN IF cr.req.kind = "branches"
             THEN LET f == FanOut(got, c, rl, t)
                  IN  [call |-> f.call, sent |-> f.sent, store |-> st]
             ELSE LET normalized == Normalize(cr.req, got.results)
                  IN  [call |-> [got EXCEPT !.pc = "done", !.result = normalized],
                       sent |-> {},
                       store |-> CacheSet(st, key, held \o normalized, t)]
        ELSE LET r == RequestPage([got EXCEPT !.page = @ + 1], c, rl, t)
             IN  [call |-> r.call, sent |-> r.sent, store |-> st]

\* The continuation of fetchAllPages after a page of `data` arrived
\* (lines 219-229) and, on the last page, of the normalizer that awaited it.
AfterPage(cr, c, data, st, rl, t) ==
    LET got == [cr EXCEPT !.results = @ \o data, !.sizes = Append(@, Len(data))]
    IN  IF Len(data) < perPage
        THEN IF cr.req.kind = "branches"
             THEN LET f == FanOut(got, c, rl, t)
                  IN  [call |-> f.call, sent |-> f.sent, store |-> st]
             ELSE LET normalized == Normalize(cr.req, got.results)
                  IN  [call |-> [got EXCEPT !.pc = "done", !.result = normalized],
                       sent |-> {},
                       store |-> CacheSet(st, CacheKey(cr.req), normalized, t)]
        ELSE LET r == RequestPage([got EXCEPT !.page = @ + 1], c, rl, t)
             IN  [call |-> r.call, sent |-> r.sent, store |-> st]

\* AfterLookup joining on the first lookup that settles (Promise.race).
AfterLookupRace(cr, slot, commit) ==
    [cr EXCEPT !.lookups = [cr.lookups EXCEPT ![slot] = Settled(commit)],
               !.pc = "join"]

\* AfterLookup without the catch: a lookup that threw rejects Promise.all.
AfterLookupRejects(cr, slot, commit) ==
    LET lookups == [cr.lookups EXCEPT ![slot] = Settled(commit)]
    IN  IF commit = None
        THEN [cr EXCEPT !.lookups = lookups, !.pc = "failed"]
        ELSE [cr EXCEPT !.lookups = lookups,
                        !.pc = IF \A i \in 1..Len(lookups) : lookups[i].settled
                               THEN "join" ELSE "fanout"]

\* A commit lookup settled with `commit` (None when it threw, line 389).
AfterLookup(cr, slot, commit) ==
    LET lookups == [cr.lookups EXCEPT ![slot] = Settled(commit)]
    IN  [cr EXCEPT !.lookups = lookups,
                   !.pc = IF \A i \in 1..Len(lookups) : lookups[i].settled
                          THEN "join" ELSE "fanout"]

\* PageFailed that asks once more for a page whose request failed.
PageFailedRetriesOnce(cr, c, err) ==
    LET url == cr.issued[Len(cr.issued)]
    IN  IF Cardinality({i \in 1..Len(cr.issued) : cr.issued[i] = url}) < 2
        THEN [call |-> [cr EXCEPT !.issued = Append(@, url)],
              sent |-> {Fetch(c, 0, url)}]
        ELSE [call |-> [cr EXCEPT !.pc = "failed", !.result = err], sent |-> {}]

\* request() threw err while fetchAllPages awaited it (line 217): nothing
\* catches it, the normalizer rejects with it.
PageFailed(cr, c, err) ==
    [call |-> [cr EXCEPT !.pc = "failed", !.result = err], sent |-> {}]

----------------------------------------------------------------------------
(* The owning process: the credential, the singleton and the server        *)

MissingTokenError ==
    [name |-> "Error",
     message |-> "GITHUB_TOKEN environment variable is required. Please set it before starting the server."]

TokenRequiredError == [name |-> "Error", message |-> "GitHub token is required"]

\* new GitHubService(token) (lines 142-147): the instance, or what it threw.
NewGitHubService(token) ==
    IF token = ""
    THEN [thrown |-> Some(TokenRequiredError), instance |-> None]
    ELSE [thrown |-> None, instance |-> Some([token |-> token])]

\* getGitHubService() (lines 436-447) in the process p: the process
\* afterwards and what the call threw. An unset GITHUB_TOKEN is "".
GetGitHubService(p) ==
    IF p.githubService # None
    THEN [process |-> p, thrown |-> None]
    ELSE IF p.token = ""
         THEN [process |-> p, thrown |-> Some(MissingTokenError)]
         ELSE LET made == NewGitHubService(p.token)
              IN  [process |-> [p EXCEPT !.githubService = made.instance],
                   thrown |-> made.thrown]

\* The process when its modules have been loaded: no instance yet, the
\* server not yet listening, no reply sent.
Loaded(token) ==
    [token |-> token, githubService |-> None, listening |-> FALSE, reply |-> None]

\* A configured process that is serving and has built its singleton.
Running ==
    [token |-> "t", githubService |-> Some([token |-> "t"]), listening |-> TRUE,
     reply |-> None]

\* The reply of a route that does not wait for the upstream.
Reply(route, statusCode, message, rateLimit) ==
    [route |-> route, statusCode |-> statusCode, message |-> message,
     rateLimit |-> rateLimit]

\* getRateLimitInfo() returning the tracker object itself.
GetRateLimitInfoShared(rl) == [shared |-> TRUE, fields |-> rl]

\* getRateLimitInfo() (lines 421-423): a new object with the tracker's
\* fields; `shared` tells whether the object is the tracker itself.
GetRateLimitInfo(rl) == [shared |-> FALSE, fields |-> rl]

----------------------------------------------------------------------------
(* The browser session (frontend/src/App.tsx, components/Dashboard.tsx)    *)

APP_STATE == "repo-dashboard:appState"
ORGANIZATION == "repo-dashboard:organization"
REPOSITORIES == "repo-dashboard:repositories"
SELECTED_REPOS == "repo-dashboard:selectedRepos"
DASHBOARD_DATA == "repo-dashboard:dashboardData"
ISSUES_CONFIG == "repo-dashboard:issuesConfig"
PULLS_CONFIG == "repo-dashboard:pullsConfig"
BRANCHES_CONFIG == "repo-dashboard:branchesConfig"

AppKeys == {APP_STATE, ORGANIZATION, REPOSITORIES, SELECTED_REPOS, DASHBOARD_DATA}

\* JSON.stringify(value): a text that JSON.parse accepts and turns into
\* value again; it is never the empty text.
Stringify(value) == [parses |-> TRUE, value |-> value]

EmptyDashboardData == [issues |-> <<>>, pulls |-> <<>>, branches |-> <<>>]

ColumnConfig(sortField) ==
    [sortField |-> sortField, sortDirection |-> "desc", filterRepos |-> <<>>,
     filterLabels |-> <<>>, filterAssignees |-> <<>>]

defaultIssuesConfig == ColumnConfig("createdAt")
defaultPullsConfig == ColumnConfig("createdAt")
defaultBranchesConfig == ColumnConfig("updatedAt")

\* loadFromStorage (App.tsx 20-30) and loadConfig (Dashboard.tsx 50-60).
loadFromStorage(ls, key, defaultValue) ==
    IF key \in DOMAIN ls /\ ls[key].parses THEN ls[key].value ELSE defaultValue

\* saveToStorage (App.tsx 32-38) and saveConfig (Dashboard.tsx 62-68).
saveToStorage(ls, key, value) ==
    [k \in DOMAIN ls \cup {key} |-> IF k = key THEN Stringify(value) ELSE ls[k]]

\* clearStorage (App.tsx 40-44).
clearStorage(ls) == [k \in DOMAIN ls \ AppKeys |-> ls[k]]

\* The useState initializers of App (App.tsx 48-66).
Mount(ls) ==
    [state |-> loadFromStorage(ls, APP_STATE, "org-input"),
     organization |-> loadFromStorage(ls, ORGANIZATION, ""),
     repositories |-> loadFromStorage(ls, REPOSITORIES, <<>>),
     selectedRepos |-> loadFromStorage(ls, SELECTED_REPOS, <<>>),
     dashboardData |-> loadFromStorage(ls, DASHBOARD_DATA, EmptyDashboardData),
     loading |-> FALSE,
     error |-> None]

\* The effects of App (App.tsx 69-87) for the rendered state app.
AppEffects(ls, app) ==
    LET s1 == saveToStorage(ls, APP_STATE, app.state)
        s2 == saveToStorage(s1, ORGANIZATION, app.organization)
        s3 == saveToStorage(s2, REPOSITORIES, app.repositories)
        s4 == saveToStorage(s3, SELECTED_REPOS, app.selectedRepos)
    IN  saveToStorage(s4, DASHBOARD_DATA, app.dashboardData)

\* Dashboard is rendered (Dashboard.tsx 71-92): every column configuration
\* is loaded and saved.
DashboardEffects(ls) ==
    LET s1 == saveToStorage(ls, ISSUES_CONFIG,
                            loadFromStorage(ls, ISSUES_CONFIG, defaultIssuesConfig))
        s2 == saveToStorage(s1, PULLS_CONFIG,
                            loadFromStorage(s1, PULLS_CONFIG, defaultPullsConfig))
    IN  saveToStorage(s2, BRANCHES_CONFIG,
                      loadFromStorage(s2, BRANCHES_CONFIG, defaultBranchesConfig))

\* localStorage once the state app has been rendered and its effects ran.
Rendered(ls, app) ==
    IF app.state = "dashboard" THEN DashboardEffects(AppEffects(ls, app))
    ELSE AppEffects(ls, app)

\* A session opened on the storage ls: App is mounted and rendered.
Session(number, ls) ==
    [session |-> number,
     localStorage |-> Rendered(ls, Mount(ls)),
     app |-> Mount(ls),
     pending |-> None]

----------------------------------------------------------------------------
(* Actions *)

\* The module-level state of services/github.ts when it has been loaded.
ServiceLoaded ==
    /\ now = StartTime
    /\ ticks = 0
    /\ store = CacheClear(<<>>)
    /\ rateLimitInfo = InitialRateLimitInfo(StartTime)
    /\ calls = [c \in Calls |-> IdleCall]
    /\ network = {}
    /\ history = [overtaken |-> {}, stale |-> {}]

\* A configured process that is serving, and a first browser session.
Init ==
    /\ ServiceLoaded
    /\ process = Running
    /\ snapshot = None
    /\ browser = Session(1, <<>>)

\* The invocations in progress: past their cache lookup, not yet settled.
InProgress(cs) == {c \in Calls : cs[c].pc \in {"pages", "fanout", "join"}}

\* The invocations that do cache.set in this step.
Writers == {c \in Calls : calls[c].pc \in {"pages", "join"} /\ calls'[c].pc = "done"}

\* history.overtaken: the invocations in progress that were in progress when
\* clearCache() last ran; history.stale: the keys whose entry was written by
\* an invocation that clearCache() had overtaken.
Remember ==
    LET written == {CacheKey(calls'[c].req) : c \in Writers}
        tainted == {CacheKey(calls'[c].req) : c \in Writers \cap history.overtaken}
    IN  history' = [overtaken |-> history.overtaken \cap InProgress(calls'),
                    stale |-> ((history.stale \cap DOMAIN store') \ written)
                                  \cup tainted]

\* A normalizer is invoked (lines 235-240, 261-271, 310-320, 368-378): the
\* cache lookup and, on a miss, everything up to the first page's fetch.
Invoke(c, req) ==
    /\ calls[c].pc = "idle"
    /\ LET got == CacheGet(store, CacheKey(req), now)
           key == CacheKey(req)
           cr  == [IdleCall EXCEPT !.req = req, !.page = 1,
                                   !.before = IF key \in DOMAIN store
                                              THEN Some(store[key]) ELSE None]
       IN  IF got.value # None
           THEN /\ calls' = [calls EXCEPT ![c] = [cr EXCEPT !.pc = "done",
                                                             !.result = got.value[1]]]
                /\ store' = got.store
                /\ network' = network
           ELSE LET r == RequestPage(cr, c, rateLimitInfo, now)
                IN  /\ calls' = [calls EXCEPT ![c] = r.call]
                    /\ store' = got.store
                    /\ network' = network \cup r.sent
    /\ UNCHANGED <<now, ticks, rateLimitInfo>>
    /\ Remember

\* A caller that holds the service invokes a normalizer.
Call(c, req) == Invoke(c, req) /\ UNCHANGED outside

\* fetch() resolves with a response (lines 170-189): the tracker is updated
\* from its headers, then the body is awaited, as text or as JSON.
Respond(m, status, headers) ==
    /\ m \in network
    /\ m.stage = "fetch"
    /\ rateLimitInfo' = UpdateRateLimit(rateLimitInfo, headers)
    /\ network' = (network \ {m})
            \cup {[m EXCEPT !.stage = IF ResponseOk(status) THEN "json" ELSE "text",
                            !.status = status,
                            !.headers = headers]}
    /\ UNCHANGED <<now, ticks, store, calls>>
    /\ Remember
    /\ UNCHANGED outside

\* The body of a non-success response arrived (lines 190-201): request()
\* throws; a page request fails the invocation, a commit lookup is caught.
ErrorBody(m, body) ==
    /\ m \in network
    /\ m.stage = "text"
    /\ LET cr  == calls[m.call]
           err == UpstreamError(m.status, body)
           r   == IF m.slot = 0 THEN PageFailed(cr, m.call, err)
                  ELSE [call |-> AfterLookup(cr, m.slot, None), sent |-> {}]
       IN  /\ calls' = [calls EXCEPT ![m.call] = r.call]
           /\ network' = (network \ {m}) \cup r.sent
    /\ UNCHANGED <<now, ticks, store, rateLimitInfo>>
    /\ Remember
    /\ UNCHANGED outside

\* The body of a success response could not be decoded (line 203).
BadBody(m) ==
    /\ m \in network
    /\ m.stage = "json"
    /\ LET cr == calls[m.call]
           r  == IF m.slot = 0 THEN PageFailed(cr, m.call, DecodeError)
                 ELSE [call |-> AfterLookup(cr, m.slot, None), sent |-> {}]
       IN  /\ calls' = [calls EXCEPT ![m.call] = r.call]
           /\ network' = (network \ {m}) \cup r.sent
    /\ UNCHANGED <<now, ticks, store, rateLimitInfo>>
    /\ Remember
    /\ UNCHANGED outside

\* A page of n records was decoded: fetchAllPages goes on (lines 217-229).
PageBody(m, n) ==
    /\ m \in network
    /\ m.stage = "json"
    /\ m.slot = 0
    /\ LET cr == calls[m.call]
           r  == AfterPage(cr, m.call, RawPage(cr.req, cr.page, n), store,
                           rateLimitInfo, now)
       IN  /\ calls' = [calls EXCEPT ![m.call] = r.call]
           /\ network' = (network \ {m}) \cup r.sent
           /\ store' = r.store
    /\ UNCHANGED <<now, ticks, rateLimitInfo>>
    /\ Remember
    /\ UNCHANGED outside

\* A page after the first was decoded, served by an upstream whose collection
\* had grown by one entity since the preceding page (lines 217-229).
PageBodyDrifted(m, n) ==
    /\ m \in network
    /\ m.stage = "json"
    /\ m.slot = 0
    /\ calls[m.call].page > 1
    /\ LET cr == calls[m.call]
           r  == AfterPage(cr, m.call, DriftedPage(cr.req, cr.page, n), store,
                           rateLimitInfo, now)
       IN  /\ calls' = [calls EXCEPT ![m.call] = r.call]
           /\ network' = (network \ {m}) \cup r.sent
           /\ store' = r.store
    /\ UNCHANGED <<now, ticks, rateLimitInfo>>
    /\ Remember
    /\ UNCHANGED outside

\* A commit object was decoded (lines 385-386).
CommitBody(m) ==
    /\ m \in network
    /\ m.stage = "json"
    /\ m.slot > 0
    /\ network' = network \ {m}
    /\ LET cr == calls[m.call]
       IN  calls' = [calls EXCEPT ![m.call] =
                AfterLookup(cr, m.slot,
                            Some(CommitRecord(cr.results[m.slot].commit.sha)))]
    /\ UNCHANGED <<now, ticks, store, rateLimitInfo>>
    /\ Remember
    /\ UNCHANGED outside

\* Join that caches the list only when every lookup resolved a date.
JoinSkipsDegraded(c) ==
    /\ calls[c].pc = "join"
    /\ LET cr == calls[c]
           normalized == NormalizeBranches(cr.req, cr.results,
                                           [i \in 1..Len(cr.lookups) |-> cr.lookups[i].commit])
       IN  /\ calls' = [calls EXCEPT ![c] = [cr EXCEPT !.pc = "done", !.result = normalized]]
           /\ store' = IF \E i \in 1..Len(cr.lookups) : cr.lookups[i].commit = None
                       THEN store
                       ELSE CacheSet(store, CacheKey(cr.req), normalized, now)
    /\ UNCHANGED <<now, ticks, rateLimitInfo, network>>
    /\ Remember
    /\ UNCHANGED outside

\* Promise.all resolved (lines 394-415).
Join(c) ==
    /\ calls[c].pc = "join"
    /\ LET cr == calls[c]
           normalized == NormalizeBranches(cr.req, cr.results,
                                           [i \in 1..Len(cr.lookups) |-> cr.lookups[i].commit])
       IN  /\ calls' = [calls EXCEPT ![c] = [cr EXCEPT !.pc = "done", !.result = normalized]]
           /\ store' = CacheSet(store, CacheKey(cr.req), normalized, now)
    /\ UNCHANGED <<now, ticks, rateLimitInfo, network>>
    /\ Remember
    /\ UNCHANGED outside

\* The caller took the value or the error; the slot is free again.
Return(c) ==
    /\ calls[c].pc \in {"done", "failed"}
    /\ calls' = [calls EXCEPT ![c] = IdleCall]
    /\ UNCHANGED <<now, ticks, store, rateLimitInfo, network>>
    /\ Remember
    /\ UNCHANGED outside

\* clearCache() (lines 428-430).
EmptyCache ==
    /\ store' = CacheClear(store)
    /\ history' = [overtaken |-> InProgress(calls), stale |-> {}]
    /\ UNCHANGED <<now, ticks, rateLimitInfo, calls, network>>

\* A caller that holds the service clears the cache.
ClearCache == EmptyCache /\ UNCHANGED outside

\* app.listen (index.ts 210): the server starts to accept requests.
Listen ==
    /\ ~process.listening
    /\ process' = [process EXCEPT !.listening = TRUE]
    /\ UNCHANGED <<now, ticks, store, rateLimitInfo, calls, network, history,
                   snapshot, browser>>

\* A request for one of the four lists arrives (routes/github.ts 43-145):
\* getGitHubService(), then the normalizer up to its first await. What
\* getGitHubService() throws rejects the handler as a normalizer's error does.
DataRoute(c, req) ==
    /\ process.listening
    /\ calls[c].pc = "idle"
    /\ LET g == GetGitHubService(process)
       IN  IF g.thrown # None
           THEN /\ calls' = [calls EXCEPT ![c] = [IdleCall EXCEPT !.req = req,
                                                                  !.pc = "failed",
                                                                  !.result = g.thrown[1]]]
                /\ process' = g.process
                /\ UNCHANGED <<now, ticks, store, rateLimitInfo, network, history>>
           ELSE /\ process' = g.process
                /\ Invoke(c, req)
    /\ UNCHANGED <<snapshot, browser>>

\* GET /api/health (routes/github.ts 24-37).
HealthRoute ==
    /\ process.listening
    /\ LET g == GetGitHubService(process)
       IN  process' =
             [g.process EXCEPT !.reply =
                IF g.thrown # None
                THEN Some(Reply("health", 500, g.thrown[1].message, None))
                ELSE Some(Reply("health", 200, "",
                                Some(GetRateLimitInfo(rateLimitInfo).fields)))]
    /\ UNCHANGED <<now, ticks, store, rateLimitInfo, calls, network, history,
                   snapshot, browser>>

\* POST /api/cache/clear (routes/github.ts 151-156).
ClearRoute ==
    /\ process.listening
    /\ LET g == GetGitHubService(process)
       IN  IF g.thrown # None
           THEN /\ process' = [g.process EXCEPT !.reply =
                                  Some(Reply("cache/clear", 500, g.thrown[1].message, None))]
                /\ UNCHANGED <<now, ticks, store, rateLimitInfo, calls, network,
                               history>>
           ELSE /\ process' = [g.process EXCEPT !.reply =
                                  Some(Reply("cache/clear", 200,
                                             "Cache cleared successfully", None))]
                /\ EmptyCache
    /\ UNCHANGED <<snapshot, browser>>

\* The body of the global error handler's reply with a fixed text in place
\* of the error's message.
ApiErrorGeneric(message) ==
    [error |-> "Internal Server Error", message |-> "An unexpected error occurred",
     statusCode |-> 500]

\* The ApiError of the global error handler (index.ts 196-207).
ApiError(message) ==
    [error |-> "Internal Server Error",
     message |-> IF message = "" THEN "An unexpected error occurred" ELSE message,
     statusCode |-> 500]

\* The body of a list route's reply (routes/github.ts 61, 88, 115, 142).
Collection(req, list) ==
    IF req.kind = "repos" THEN [repositories |-> list] ELSE [items |-> list]

HttpResponse(statusCode, body) == [statusCode |-> statusCode, body |-> body]

\* The handler of a list route goes on after its await: res.json with the
\* list, or asyncHandler's catch(next) and the global error handler
\* (routes/github.ts 12-18, index.ts 196-207).
Answer(c) ==
    /\ calls[c].pc \in {"done", "failed"}
    /\ calls' = [calls EXCEPT ![c] =
            [@ EXCEPT !.pc = "replied",
                      !.result = IF calls[c].pc = "done"
                                 THEN HttpResponse(200, Collection(calls[c].req,
                                                                   calls[c].result))
                                 ELSE HttpResponse(500, ApiError(calls[c].result.message))]]
    /\ UNCHANGED <<now, ticks, store, rateLimitInfo, network>>
    /\ Remember
    /\ UNCHANGED outside

\* The exchange is over; the slot is free again.
Finish(c) ==
    /\ calls[c].pc = "replied"
    /\ calls' = [calls EXCEPT ![c] = IdleCall]
    /\ UNCHANGED <<now, ticks, store, rateLimitInfo, network>>
    /\ Remember
    /\ UNCHANGED outside

\* A caller takes a snapshot of the tracker (lines 421-423).
TakeSnapshot ==
    /\ snapshot' = Some(GetRateLimitInfo(rateLimitInfo))
    /\ UNCHANGED <<now, ticks, store, rateLimitInfo, calls, network, history,
                   process, browser>>

\* The caller assigns v to a field of the object it got.
ModifySnapshot(field, v) ==
    /\ snapshot # None
    /\ snapshot[1].fields[field] # v
    /\ snapshot' = Some([snapshot[1] EXCEPT !.fields[field] = v])
    /\ rateLimitInfo' = IF snapshot[1].shared
                        THEN [rateLimitInfo EXCEPT ![field] = v]
                        ELSE rateLimitInfo
    /\ UNCHANGED <<now, ticks, store, calls, network, history, process, browser>>

\* The clock advances by d milliseconds.
Tick(d) ==
    /\ ticks < MaxTicks
    /\ now' = now + d
    /\ ticks' = ticks + 1
    /\ UNCHANGED <<store, rateLimitInfo, calls, network>>
    /\ Remember
    /\ UNCHANGED outside

\* The page lengths the upstream w may serve to the fetch m.
Served(w, m) == PageLens(w, calls[m.call].req, calls[m.call].page)

----------------------------------------------------------------------------
(* Rate-limit gating: one caller, every combination of rate-limit headers *)

GateMaxFullPages == 1

GateUpstream == Upstream(GateMaxFullPages, {0, ShortLen}, 0)
GateRequests == {Request("issues", "a", "b")}
GateHeaders ==
    HeaderChoices({<<"0">>, <<"1">>, <<"-", "1">>}, {<<"0">>, <<"2">>}, {<<"6", "0">>})

GateNext ==
    \/ \E req \in GateRequests : Call(1, req)
    \/ \E m \in network, status \in {200, 404}, headers \in GateHeaders :
            Respond(m, status, headers)
    \/ \E m \in network : ErrorBody(m, ValidBody(JObject("message" :> "Not Found")))
    \/ \E m \in network : BadBody(m)
    \/ \E m \in network : \E n \in Served(GateUpstream, m) : PageBody(m, n)
    \/ Return(1)
    \/ ClearCache
    \/ Tick(TickMs)

SpecGate == Init /\ [][GateNext]_vars

----------------------------------------------------------------------------
(* Pagination and failures: one caller, an upstream that may close the     *)
(* gate, fail or send an undecodable body at any page                      *)

PagesMaxFullPages == 3

PagesUpstream == Upstream(PagesMaxFullPages, {0, ShortLen}, 0)
PagesRequests == {Request("issues", "a", "b")}

\* remaining = 0 until 302 s: still ahead when the entries written at the
\* start have expired.
Closing ==
    ("x-ratelimit-remaining" :> <<"0">>) @@ ("x-ratelimit-reset" :> <<"3", "0", "2">>)

\* A clock advance after which every entry written before it has expired.
PastTtl == CACHE_TTL_MS + TickMs

PagesNext ==
    \/ \E req \in PagesRequests : Call(1, req)
    \/ \E m \in network, status \in {200, 404}, headers \in {NoHeaders, Closing} :
            Respond(m, status, headers)
    \/ \E m \in network, body \in ErrorBodies : ErrorBody(m, body)
    \/ \E m \in network : BadBody(m)
    \/ \E m \in network : \E n \in Served(PagesUpstream, m) : PageBody(m, n)
    \/ Return(1)
    \/ ClearCache
    \/ Tick(PastTtl)

SpecPages == Init /\ [][PagesNext]_vars

\* The upstream answers every fetch and every body is read to its end.
PagesDeliver ==
    \/ \E m \in network, status \in {200, 404}, headers \in {NoHeaders, Closing} :
            Respond(m, status, headers)
    \/ \E m \in network, body \in ErrorBodies : ErrorBody(m, body)
    \/ \E m \in network : BadBody(m)
    \/ \E m \in network : \E n \in Served(PagesUpstream, m) : PageBody(m, n)

SpecPagesFair == SpecPages /\ WF_vars(PagesDeliver)

----------------------------------------------------------------------------
(* Branch enrichment: one caller, a repository of a few branches *)

BranchesMaxBranches == 2

BranchesUpstream == Upstream(0, {}, BranchesMaxBranches)
BranchesRequests == {Request("branches", "a", "b")}

\* A listing that filled its first page ends on its second page only once
\* the quota is spent, so that the lookups of its branches (more than a
\* hundred) are all refused at the gate instead of interleaving.
LongListingMeetsClosedGate(m) ==
    calls[m.call].page > 1 => Gate(rateLimitInfo, now) # None

BranchesNext ==
    \/ \E req \in BranchesRequests : Call(1, req)
    \/ \E m \in network, status \in {200, 404}, headers \in {NoHeaders, Closing} :
            Respond(m, status, headers)
    \/ \E m \in network : ErrorBody(m, InvalidBody)
    \/ \E m \in network : BadBody(m)
    \/ \E m \in network : \E n \in Served(BranchesUpstream, m) :
            LongListingMeetsClosedGate(m) /\ PageBody(m, n)
    \/ \E m \in network : calls[m.call].page = 1 /\ PageBody(m, perPage)
    \/ \E m \in network : CommitBody(m)
    \/ Join(1)
    \/ Return(1)
    \/ ClearCache
    \/ Tick(PastTtl)

SpecBranches == Init /\ [][BranchesNext]_vars

----------------------------------------------------------------------------
(* Caching: two overlapping callers, two keys, an upstream that always     *)
(* answers, a clock that can stop exactly on an expiry instant             *)

CacheUpstream == Upstream(0, {0, ShortLen}, 0)
\* Each caller asks for its own repository.
CacheRequests == <<Request("issues", "a", "b"), Request("issues", "a", "c")>>

CacheNext ==
    \/ \E c \in Calls : Call(c, CacheRequests[c])
    \/ \E m \in network : Respond(m, 200, NoHeaders)
    \/ \E m \in network : \E n \in Served(CacheUpstream, m) : PageBody(m, n)
    \/ \E c \in Calls : Return(c)
    \/ ClearCache
    \/ Tick(TickMs)
    \/ Tick(CACHE_TTL_MS)

SpecCache == Init /\ [][CacheNext]_vars

----------------------------------------------------------------------------
(* Repeated and overlapping calls with the same parameters: two callers,   *)
(* every normalizer, an upstream whose collections change between fetches, *)
(* no clearCache(), and a clock that stays within one TTL of the start     *)

RepeatLen == 2
RepeatMaxBranches == 1

RepeatUpstream == Upstream(0, {0, RepeatLen}, RepeatMaxBranches)
RepeatRequests ==
    {Request("repos", "a", ""), Request("issues", "a", "b"),
     Request("pulls", "a", "b"), Request("branches", "a", "b")}

\* The clock advances by d without leaving the first TTL window.
TickWithinWindow(d) == now + d <= StartTime + CACHE_TTL_MS /\ Tick(d)

\* Every call of a run has the parameters of the run's first call.
SameParameters(req) ==
    /\ \A k \in DOMAIN store : k = CacheKey(req)
    /\ \A c \in Calls : calls[c].pc # "idle" => calls[c].req = req

RepeatNext ==
    \/ \E c \in Calls, req \in RepeatRequests : SameParameters(req) /\ Call(c, req)
    \/ \E m \in network : Respond(m, 200, NoHeaders)
    \/ \E m \in network : \E n \in Served(RepeatUpstream, m) : PageBody(m, n)
    \/ \E m \in network : CommitBody(m)
    \/ \E c \in Calls : Join(c)
    \/ \E c \in Calls : Return(c)
    \/ TickWithinWindow(TickMs)
    \/ TickWithinWindow(CACHE_TTL_MS)

SpecRepeat == Init /\ [][RepeatNext]_vars

----------------------------------------------------------------------------
(* Cache keys: one caller asking in turn for collections that differ in    *)
(* kind, in owner or in repository, with clearCache() at any moment        *)

KeysLen == 2

KeysUpstream == Upstream(0, {KeysLen}, KeysLen)

\* Owners and repositories are GitHub names: letters, digits, "-", "_" and
\* ".", never "/" or ":".
KeysRequests ==
    {Request("repos", "a", ""), Request("repos", "a-b", ""),
     Request("issues", "a", "b"), Request("issues", "a", "c"),
     Request("issues", "a-b", "c"), Request("pulls", "a", "b"),
     Request("branches", "a", "b")}

KeysNext ==
    \/ \E req \in KeysRequests : Call(1, req)
    \/ \E m \in network : Respond(m, 200, NoHeaders)
    \/ \E m \in network : \E n \in Served(KeysUpstream, m) : PageBody(m, n)
    \/ \E m \in network : CommitBody(m)
    \/ Join(1)
    \/ Return(1)
    \/ ClearCache

SpecKeys == Init /\ [][KeysNext]_vars

----------------------------------------------------------------------------
(* Races on one key: two callers with the same parameters whose fetches    *)
(* overlap page by page, an upstream whose collection changes meanwhile    *)

RaceMaxFullPages == 1

RaceUpstream == Upstream(RaceMaxFullPages, {0, ShortLen}, RepeatMaxBranches)

RaceNext ==
    \/ \E c \in Calls, req \in RepeatRequests : SameParameters(req) /\ Call(c, req)
    \/ \E m \in network : Respond(m, 200, NoHeaders)
    \/ \E m \in network : \E n \in Served(RaceUpstream, m) : PageBody(m, n)
    \/ \E m \in network : CommitBody(m)
    \/ \E c \in Calls : Join(c)
    \/ \E c \in Calls : Return(c)

SpecRace == Init /\ [][RaceNext]_vars

----------------------------------------------------------------------------
(* A collection that grows while it is being paged: one caller, issues or  *)
(* pull requests, an entity added between two page requests                *)

DriftMaxFullPages == 1

DriftUpstream == Upstream(DriftMaxFullPages, {1, ShortLen}, 0)
DriftRequests == {Request("issues", "a", "b"), Request("pulls", "a", "b")}

DriftNext ==
    \/ \E req \in DriftRequests : Call(1, req)
    \/ \E m \in network : Respond(m, 200, NoHeaders)
    \/ \E m \in network : \E n \in Served(DriftUpstream, m) : PageBody(m, n)
    \/ \E m \in network : \E n \in Served(DriftUpstream, m) : PageBodyDrifted(m, n)
    \/ Return(1)
    \/ ClearCache
    \/ Tick(PastTtl)

SpecDrift == Init /\ [][DriftNext]_vars

----------------------------------------------------------------------------
(* Item ids: one caller asking for the items of repositories whose owner   *)
(* and name contain hyphens                                                *)

IdsLen == 2

IdsUpstream == Upstream(0, {IdsLen}, 0)

\* The repositories a-b/c and a/b-c, both valid GitHub names.
IdsRequests ==
    {Request("issues", "a-b", "c"), Request("issues", "a", "b-c"),
     Request("pulls", "a", "b-c")}

IdsNext ==
    \/ \E req \in IdsRequests : Call(1, req)
    \/ \E m \in network : Respond(m, 200, NoHeaders)
    \/ \E m \in network : \E n \in Served(IdsUpstream, m) : PageBody(m, n)
    \/ Return(1)
    \/ ClearCache
    \/ Tick(TickMs)

SpecIds == Init /\ [][IdsNext]_vars

----------------------------------------------------------------------------
(* Vocabulary of the properties *)

\* In this step invocation c entered request() for a page: on a cache miss
\* (page 1) or after a full page (the next page).
PageRequestEntered(c) ==
    \/ calls[c].pc = "idle" /\ calls'[c].pc \in {"pages", "failed"}
    \/ calls[c].pc = "pages" /\ calls'[c].pc \in {"pages", "failed"}
                             /\ calls'[c].page = calls[c].page + 1

\* The fetches invocation c started in this step.
Sent(c) == {m \in network' \ network : m.call = c /\ m.stage = "fetch"}

\* In this step the fetch m resolved with the response held by m2.
Responded(m, m2) ==
    /\ m.stage = "fetch" /\ m \notin network'
    /\ m2 \notin network /\ m2.stage \in {"text", "json"}
    /\ m2.call = m.call /\ m2.slot = m.slot

\* The number a header text of the upstreams above denotes.
Decimal(text) ==
    CASE text = <<"0">> -> 0
      [] text = <<"1">> -> 1
      [] text = <<"2">> -> 2
      [] text = <<"-", "1">> -> 0 - 1
      [] text = <<"6", "0">> -> 60
      [] text = <<"3", "0", "2">> -> 302

\* No entry was written or replaced in this step.
NothingWritten == \A k \in DOMAIN store' : k \in DOMAIN store /\ store'[k] = store[k]

RateLimitFailure(cr, seconds) ==
    cr.pc = "failed" /\ cr.result = [name |-> "Error", message |-> RateLimitMessage(seconds)]

----------------------------------------------------------------------------
(* C1: whenever request() is entered with remaining <= 0 and the reset time *)
(* strictly later than the clock, the call fails with the rate-limit error  *)
(* and no fetch is started; the error carries ceil((reset - now) / 1000)    *)
(* seconds, which is at least 1; the tracker is unchanged and no cache      *)
(* entry is written.                                                        *)
C1_GateRefuses ==
    [][\A c \in Calls :
        (/\ PageRequestEntered(c)
         /\ rateLimitInfo.remaining <= 0
         /\ rateLimitInfo.reset > now)
        => LET waitTime == rateLimitInfo.reset - now
               seconds  == (waitTime + 999) \div 1000
           IN  /\ seconds >= 1
               /\ RateLimitFailure(calls'[c], seconds)
               /\ Sent(c) = {}
               /\ calls'[c].issued = calls[c].issued
               /\ rateLimitInfo' = rateLimitInfo
               /\ NothingWritten]_vars

\* A refused request: the second page, 500 ms before the reset time.
C1_Witness ==
    /\ RateLimitFailure(calls[1], 1)
    /\ calls[1].sizes = <<perPage>>
    /\ Len(calls[1].issued) = 1
    /\ rateLimitInfo.remaining <= 0
    /\ rateLimitInfo.reset - now = TickMs

(* C2: whenever request() is entered with remaining <= 0 and the reset time *)
(* at or before the clock, the fetch is started; and when a fetch resolves, *)
(* the tracker holds the values of the rate-limit headers of its response.  *)
C2_GateReopens ==
    [][/\ \A c \in Calls :
            (/\ PageRequestEntered(c)
             /\ rateLimitInfo.remaining <= 0
             /\ rateLimitInfo.reset <= now)
            => /\ calls'[c].pc = "pages"
               /\ \E m \in Sent(c) :
                    /\ Sent(c) = {m}
                    /\ m.slot = 0
                    /\ m.url = baseUrl \o PageUrl(calls'[c].req, calls'[c].page)
                    /\ calls'[c].issued = Append(calls[c].issued, m.url)
       /\ \A m \in network : \A m2 \in network' :
            Responded(m, m2)
            => /\ "x-ratelimit-remaining" \in DOMAIN m2.headers
                    => rateLimitInfo'.remaining = Decimal(m2.headers["x-ratelimit-remaining"])
               /\ "x-ratelimit-reset" \in DOMAIN m2.headers
                    => rateLimitInfo'.reset = 1000 * Decimal(m2.headers["x-ratelimit-reset"])
               /\ "x-ratelimit-limit" \in DOMAIN m2.headers
                    => rateLimitInfo'.limit = Decimal(m2.headers["x-ratelimit-limit"])]_vars

\* A fetch in flight although the tracker still says remaining <= 0: the
\* reset time has passed.
C2_Witness ==
    \E m \in network :
        /\ m.stage = "fetch"
        /\ rateLimitInfo.remaining <= 0
        /\ rateLimitInfo.reset <= now

(* C3: when a fetch resolves, whatever the status, each tracker field is    *)
(* the value of its header when the header is sent (reset: seconds to       *)
(* milliseconds) and keeps its value when it is not; this is done before    *)
(* the status is acted upon: the invocation has neither failed nor gone on. *)
C3_TrackerFollowsHeaders ==
    [][\A m \in network : \A m2 \in network' :
        Responded(m, m2)
        => LET h == m2.headers
           IN  /\ rateLimitInfo'.remaining =
                    IF "x-ratelimit-remaining" \in DOMAIN h
                    THEN Decimal(h["x-ratelimit-remaining"]) ELSE rateLimitInfo.remaining
               /\ rateLimitInfo'.reset =
                    IF "x-ratelimit-reset" \in DOMAIN h
                    THEN 1000 * Decimal(h["x-ratelimit-reset"]) ELSE rateLimitInfo.reset
               /\ rateLimitInfo'.limit =
                    IF "x-ratelimit-limit" \in DOMAIN h
                    THEN Decimal(h["x-ratelimit-limit"]) ELSE rateLimitInfo.limit
               /\ calls' = calls
               /\ (m2.stage = "text") = (m2.status \notin 200..299)]_vars

\* An error response that carried remaining = 0 and no reset: the tracker
\* has the 0 and its initial reset time, and the invocation has not failed.
C3_Witness ==
    \E m \in network :
        /\ m.stage = "text"
        /\ m.status = 404
        /\ DOMAIN m.headers = {"x-ratelimit-remaining"}
        /\ m.headers["x-ratelimit-remaining"] = <<"0">>
        /\ rateLimitInfo.remaining = 0
        /\ rateLimitInfo.reset = StartTime + InitialResetDelay
        /\ calls[m.call].pc = "pages"

----------------------------------------------------------------------------
\* The URLs of pages 1..n of the collection of req, in order.
PageUrls(req, n) == [j \in 1..n |-> baseUrl \o PageUrl(req, j)]

\* The pages served, concatenated in page order.
RECURSIVE ConcatPages(_, _, _)
ConcatPages(req, sizes, j) ==
    IF j > Len(sizes) THEN <<>>
    ELSE RawPage(req, j, sizes[j]) \o ConcatPages(req, sizes, j + 1)

\* Invocation c went to the upstream (it was no cache hit).
Fetched(c) == calls[c].sizes # <<>>

(* C4: a fetch that ends was served k full pages and then one short page    *)
(* (possibly empty); it issued exactly k+1 requests, for pages 1..k+1 in    *)
(* that order, and its result is the concatenation of the pages served, in  *)
(* page order.                                                              *)
C4_AllPagesInOrder ==
    \A c \in Calls :
        (calls[c].pc = "done" /\ Fetched(c))
        => LET cr == calls[c]
               k  == Len(cr.sizes) - 1
           IN  /\ \A j \in 1..k : cr.sizes[j] = 100
               /\ cr.sizes[k + 1] < 100
               /\ cr.issued = PageUrls(cr.req, k + 1)
               /\ cr.results = ConcatPages(cr.req, cr.sizes, 1)
               /\ Len(cr.results) = 100 * k + cr.sizes[k + 1]

\* Pages of 100, 100 and 37 records: 3 requests, 237 records.
C4_Witness ==
    /\ calls[1].pc = "done"
    /\ calls[1].sizes = <<100, 100, 37>>
    /\ Len(calls[1].issued) = 3
    /\ Len(calls[1].results) = 237

\* The page requests of invocation c that are in flight or whose body is
\* awaited.
PagesInFlight(c) == {m \in network : m.call = c /\ m.slot = 0}

(* C5: the request for page N+1 is not issued before the response for page  *)
(* N was received and processed: at most one page request of an invocation  *)
(* is in flight, it is the request for the page after those processed, and  *)
(* the requests issued are one more than the pages processed at most.       *)
C5_PagesSequential ==
    \A c \in Calls :
        LET cr == calls[c]
        IN  /\ Cardinality(PagesInFlight(c)) <= 1
            /\ Len(cr.issued) <= Len(cr.sizes) + 1
            /\ \A m \in PagesInFlight(c) :
                    /\ cr.pc = "pages"
                    /\ Len(cr.issued) = Len(cr.sizes) + 1
                    /\ m.url = baseUrl \o PageUrl(cr.req, Len(cr.sizes) + 1)
                    /\ cr.issued[Len(cr.issued)] = m.url

\* The request for page 2 in flight, page 1 processed.
C5_Witness ==
    /\ calls[1].sizes = <<100>>
    /\ \E m \in PagesInFlight(1) :
            m.stage = "fetch" /\ m.url = baseUrl \o PageUrl(calls[1].req, 2)

\* In this step invocation c processed a page of n records.
Processed(c, n) == calls'[c].sizes = Append(calls[c].sizes, n)

C6_StopsAtShortPage ==
    [][\A c \in Calls : \A n \in 0..100 :
        Processed(c, n)
        => IF n < 100
           THEN /\ Sent(c) = {}
                /\ calls'[c].issued = calls[c].issued
                /\ calls'[c].pc = "done"
           ELSE \/ /\ calls'[c].pc = "pages"
                   /\ Cardinality(Sent(c)) = 1
                   /\ calls'[c].page = calls[c].page + 1
                \/ /\ calls'[c].pc = "failed"
                   /\ rateLimitInfo.remaining <= 0 /\ rateLimitInfo.reset > now]_vars

C6_OnlyShortPageEnds ==
    \A c \in Calls :
        /\ (calls[c].pc = "done" /\ Fetched(c))
                => calls[c].sizes[Len(calls[c].sizes)] < 100
        /\ calls[c].pc = "pages" => PagesInFlight(c) # {}

C6_Terminates ==
    \A c \in Calls : (calls[c].pc = "pages") ~> (calls[c].pc \in {"done", "failed"})

(* C6: fetchAllPages stops at the first page of fewer than 100 records and  *)
(* issues no request after it; after a full page it always requests the     *)
(* next page, whatever the number of pages or records so far, and only a    *)
(* failure of that request ends it otherwise; hence, against an upstream    *)
(* that answers and eventually serves a short page, it terminates.          *)
C6_ShortPageIsTheOnlyEnd ==
    C6_StopsAtShortPage /\ []C6_OnlyShortPageEnds /\ C6_Terminates

\* Three full pages and then an empty one: the fetch went on for as long as
\* pages were full and ended on the empty page.
C6_Witness ==
    /\ calls[1].pc = "done"
    /\ calls[1].sizes = <<100, 100, 100, 0>>
    /\ Len(calls[1].issued) = 4
    /\ PagesInFlight(1) = {}

----------------------------------------------------------------------------
\* The entry the store holds for the key of invocation c, if any.
EntryOf(c) ==
    LET key == CacheKey(calls[c].req)
    IN  IF key \in DOMAIN store THEN Some(store[key]) ELSE None

\* In this step the page request of invocation c failed: the gate refused
\* it, or the body of its response arrived and was an error or undecodable.
GateRefused(c) ==
    /\ PageRequestEntered(c)
    /\ rateLimitInfo.remaining <= 0 /\ rateLimitInfo.reset > now
    /\ calls'[c].result.message =
            RateLimitMessage((rateLimitInfo.reset - now + 999) \div 1000)

ErrorStatus(c) ==
    \E m \in network \ network' :
        /\ m.call = c /\ m.slot = 0 /\ m.stage = "text"
        /\ calls'[c].result.name = "Error"
        /\ calls'[c].result.message \in
                {"GitHub API error: Not Found", "GitHub API error: 404 Not Found"}

Undecodable(c) ==
    \E m \in network \ network' :
        /\ m.call = c /\ m.slot = 0 /\ m.stage = "json"
        /\ calls'[c].result.name = "SyntaxError"

\* C7 as stated: after a failed normalizer call the cache entry for its key
\* is exactly what it was before the call started.
C7_EntryExactlyAsBefore ==
    \A c \in Calls : calls[c].pc = "failed" => EntryOf(c) = calls[c].before

C7_NoEntryAfterFailure ==
    \A c \in Calls :
        calls[c].pc = "failed"
        => /\ EntryOf(c) = None
           /\ calls[c].before = None \/ now > calls[c].before[1].expiresAt

C7_FailingStep ==
    [][\A c \in Calls :
        (calls[c].pc # "failed" /\ calls'[c].pc = "failed")
        => /\ GateRefused(c) \/ ErrorStatus(c) \/ Undecodable(c)
           /\ NothingWritten
           /\ Sent(c) = {}]_vars

C7_OnlyCompletedFetchesWrite ==
    [][~NothingWritten
        => \E c \in Calls :
            /\ calls[c].pc = "pages" /\ calls'[c].pc = "done"
            /\ calls'[c].sizes[Len(calls'[c].sizes)] < 100
            /\ \A k \in DOMAIN store' :
                    k # CacheKey(calls'[c].req) => k \in DOMAIN store /\ store'[k] = store[k]
            /\ store'[CacheKey(calls'[c].req)].data = calls'[c].result]_vars

C7_InitialLookupRemovesExpired ==
    [][\A k \in DOMAIN store \ DOMAIN store' :
        \/ store' = CacheClear(store)
        \/ now > store[k].expiresAt]_vars

(* C7 (amended): if a page request of a normalizer call fails (gate         *)
(* refusal, non-success status or undecodable body), the call fails with    *)
(* that error, returns no list and writes nothing to the cache: only a      *)
(* fetch that reached its short page writes; the one change a failing call  *)
(* makes is that its initial lookup removes the entry of its key when that  *)
(* entry had expired, so that the key has no entry after the failure.       *)
C7_AllOrNothing ==
    /\ []C7_NoEntryAfterFailure
    /\ C7_FailingStep
    /\ C7_OnlyCompletedFetchesWrite
    /\ C7_InitialLookupRemovesExpired

\* A call that found an expired entry, removed it, fetched one full page and
\* then failed: the key has no entry.
C7_Witness ==
    /\ calls[1].pc = "failed"
    /\ calls[1].sizes = <<100>>
    /\ calls[1].before # None
    /\ EntryOf(1) = None

----------------------------------------------------------------------------
Occurrences(seq, u) == Cardinality({i \in 1..Len(seq) : seq[i] = u})

\* The URL of the commit lookup for the i-th branch listed to invocation c.
LookupUrl(c, i) ==
    baseUrl \o "/repos/" \o calls[c].req.owner \o "/" \o calls[c].req.repo
        \o "/commits/" \o calls[c].results[i].commit.sha

\* The branches listed to invocation c whose commit lookup has URL u.
BranchesAt(c, u) == {i \in 1..Len(calls[c].results) : LookupUrl(c, i) = u}

\* C8 as stated, its first half: within a normalizer call no page URL or
\* commit-detail URL is requested more than once.
C8_NoUrlTwice ==
    \A c \in Calls : \A i \in 1..Len(calls[c].issued) :
        Occurrences(calls[c].issued, calls[c].issued[i]) = 1

C8_OnePerPageAndBranch ==
    \A c \in Calls :
        LET cr == calls[c]
            n  == Len(cr.sizes)
        IN  \* the page requests, each URL once, then the commit lookups
            /\ Len(cr.issued) >= n
            /\ \A j \in 1..Len(cr.issued) :
                    IF j <= n \/ cr.pc \in {"pages", "failed"}
                    THEN /\ cr.issued[j] = baseUrl \o PageUrl(cr.req, j)
                         /\ Occurrences(cr.issued, cr.issued[j]) = 1
                    ELSE /\ cr.issued[j] = LookupUrl(c, j - n)
                         /\ Occurrences(cr.issued, cr.issued[j])
                                = Cardinality(BranchesAt(c, cr.issued[j]))
            /\ cr.pc \in {"fanout", "join", "done"} /\ Fetched(c)
                    => Len(cr.issued) \in {n, n + Len(cr.results)}
            /\ cr.pc = "failed" => {m \in network : m.call = c} = {}

C8_NothingAfterFailure ==
    [][\A c \in Calls :
        /\ calls[c].pc = "failed"
                => Sent(c) = {} /\ calls'[c].pc \in {"failed", "idle"}
        \* a request is started only for the next page or by the fan-out
        /\ Sent(c) # {}
                => \/ PageRequestEntered(c)
                   \/ calls[c].pc = "pages" /\ calls'[c].pc = "fanout"
        \* a lookup that settled, failed or not, stays as it settled
        /\ calls[c].pc = "fanout"
                => \A i \in 1..Len(calls[c].lookups) :
                        calls[c].lookups[i].settled
                            => calls'[c].lookups[i] = calls[c].lookups[i]]_vars

(* C8 (amended): no retries: within a normalizer call each page URL is      *)
(* requested at most once and one commit-detail request is made per listed  *)
(* branch (the same commit-detail URL twice exactly when two listed         *)
(* branches have the same head commit); a failed request is never issued    *)
(* again, and after a page request has failed the call issues no further    *)
(* request.                                                                 *)
C8_NoRetries == []C8_OnePerPageAndBranch /\ C8_NothingAfterFailure

\* Two branches with the same head commit, both lookups failed: the
\* commit-detail URL was requested twice, once per branch, and no more.
C8_Witness ==
    /\ calls[1].pc = "done"
    /\ Len(calls[1].results) = 2
    /\ Len(calls[1].issued) = 3
    /\ calls[1].issued[2] = calls[1].issued[3]
    /\ \A i \in 1..2 : calls[1].lookups[i] = Settled(None)

----------------------------------------------------------------------------
\* In this step invocation c began: its normalizer did cache.get on its key.
Lookup(c) == calls[c].pc = "idle" /\ calls'[c].pc # "idle"

\* In this step invocation c completed its fetch: its normalizer did
\* cache.set on its key with the value it returns.
Wrote(c) == calls[c].pc \in {"pages", "join"} /\ calls'[c].pc = "done"

\* The key of the invocation c that acts in this step.
KeyOf(c) == CacheKey(calls'[c].req)

\* In this step the store was emptied by clear().
Cleared == store' = CacheClear(store) /\ calls' = calls /\ network' = network

\* set(key, v) at time t stores v with expiry t + 5 minutes.
C9_SetStores ==
    [][\A c \in Calls : Wrote(c) =>
        /\ KeyOf(c) \in DOMAIN store'
        /\ store'[KeyOf(c)] = [data |-> calls'[c].result,
                               expiresAt |-> now + 5 * 60 * 1000]]_vars

\* Until a clear(), a later set on the key or a get after its expiry, the
\* entry stays as it was set.
C9_EntryKept ==
    [][\A k \in DOMAIN store :
        \/ k \in DOMAIN store' /\ store'[k] = store[k]
        \/ \E c \in Calls : Wrote(c) /\ KeyOf(c) = k
        \/ Cleared
        \/ \E c \in Calls : Lookup(c) /\ KeyOf(c) = k
                            /\ now > store[k].expiresAt]_vars

\* get(key) returns the stored value while the clock has not passed the
\* entry's expiry, the expiry instant included, and absent after it.
C9_GetReturns ==
    [][\A c \in Calls : Lookup(c) =>
        LET k == KeyOf(c)
        IN  IF k \in DOMAIN store /\ now <= store[k].expiresAt
            THEN /\ calls'[c].pc = "done"
                 /\ calls'[c].result = store[k].data
                 /\ Sent(c) = {}
                 /\ store' = store
            ELSE /\ calls'[c].pc \in {"pages", "failed"}
                 /\ k \notin DOMAIN store']_vars

C10_OnlyOwnGetOrClearRemoves ==
    [][\A k \in DOMAIN store : k \notin DOMAIN store' =>
        \/ Cleared
        \/ \E c \in Calls : Lookup(c) /\ KeyOf(c) = k
                            /\ now > store[k].expiresAt]_vars

\* The passage of time changes nothing but the clock.
C10_TimeAlone ==
    [][now' # now => store' = store /\ network' = network /\ calls' = calls]_vars

\* A get or a set leaves the entries of the other keys as they are.
C10_OtherKeysUntouched ==
    [][\A c \in Calls : Lookup(c) \/ Wrote(c) =>
        \A k \in DOMAIN store \ {KeyOf(c)} :
            k \in DOMAIN store' /\ store'[k] = store[k]]_vars

\* A fetch is started only by an invocation entering a page request or
\* fanning out, and only for that invocation's own data.
C10_NoRequestForOthers ==
    [][\A m \in network' \ network : m.stage = "fetch" =>
        /\ m \in Sent(m.call)
        /\ \/ PageRequestEntered(m.call)
                /\ m.url = baseUrl \o PageUrl(calls'[m.call].req, calls'[m.call].page)
           \/ calls[m.call].pc = "pages" /\ calls'[m.call].pc = "fanout"]_vars

----------------------------------------------------------------------------
\* In this step invocation c starts with the parameters of the invocation a
\* that has completed: a second, non-overlapping call.
SecondCall(a, c) ==
    /\ a # c
    /\ calls[a].pc = "done"
    /\ Lookup(c)
    /\ calls'[c].req = calls[a].req

\* C11 as stated: the second call returns the first call's list and issues
\* no upstream request (under SpecRepeat every call starts within 5 minutes
\* of every completion and there is no clearCache()).
C11_SecondCallIdentical ==
    [][\A a, c \in Calls : SecondCall(a, c) =>
        /\ calls'[c].pc = "done"
        /\ calls'[c].result = calls[a].result
        /\ Sent(c) = {}]_vars

\* The second call is served from the cache: no upstream request, the list
\* of the entry, the store untouched.
C11_ServedFromCache ==
    [][\A a, c \in Calls : SecondCall(a, c) =>
        /\ calls'[c].pc = "done"
        /\ calls'[c].result = store[KeyOf(c)].data
        /\ Sent(c) = {}
        /\ store' = store]_vars

\* A call that completes leaves or finds its list in the entry of its key.
C11_CompletionIsCached ==
    [][\A a \in Calls : calls[a].pc # "done" /\ calls'[a].pc = "done" =>
        /\ KeyOf(a) \in DOMAIN store'
        /\ store'[KeyOf(a)].data = calls'[a].result]_vars

\* The entry stops holding a completed call's list only when another call
\* with the same parameters completes its own fetch.
C11_OnlyAnotherFetchReplaces ==
    [][\A a \in Calls :
        LET k == CacheKey(calls[a].req)
        IN  /\ calls[a].pc = "done" /\ calls'[a].pc = "done"
            /\ k \in DOMAIN store /\ store[k].data = calls[a].result
            => /\ k \in DOMAIN store'
               /\ \/ store'[k].data = calls[a].result
                  \/ \E c \in Calls \ {a} : Wrote(c) /\ KeyOf(c) = k]_vars

(* C11 (amended): idempotence within the TTL window: for every normalizer   *)
(* and parameter tuple, a call that starts after a call with the same       *)
(* parameters completed, while the entry that call wrote or read is within  *)
(* its 5 minutes and with no clearCache() in between, issues no upstream    *)
(* request and returns the list of the cache entry, an empty list included; *)
(* that is the first call's list unless another call with the same          *)
(* parameters completed its own fetch in between.                           *)
C11_Idempotent ==
    /\ C11_ServedFromCache
    /\ C11_CompletionIsCached
    /\ C11_OnlyAnotherFetchReplaces

\* Caller 1 fetched an empty list; caller 2, started at the last instant of
\* the entry's 5 minutes, was served the same empty list without a request.
C11_Witness ==
    /\ calls[1].pc = "done" /\ calls[1].issued # <<>> /\ calls[1].result = <<>>
    /\ calls[2].pc = "done" /\ calls[2].issued = <<>> /\ calls[2].result = <<>>
    /\ calls[2].req = calls[1].req
    /\ calls[2].before # None
    /\ now = calls[2].before[1].expiresAt

----------------------------------------------------------------------------
\* The type an item of a normalizer carries.
ItemType(kind) ==
    CASE kind = "issues" -> "issue" [] kind = "pulls" -> "pr"
      [] kind = "branches" -> "branch"

\* The item was made by the normalizer that req invokes, from a record of
\* req's own collection.
MadeFor(req, item) ==
    IF req.kind = "repos"
    THEN /\ "fullName" \in DOMAIN item
         /\ \E n \in 1..KeysLen : item.fullName = req.owner \o "/r" \o ToString(n)
    ELSE /\ "type" \in DOMAIN item
         /\ item.type = ItemType(req.kind)
         /\ item.repositoryFullName = req.owner \o "/" \o req.repo

AllMadeFor(req, list) == \A i \in 1..Len(list) : MadeFor(req, list[i])

\* Distinct calls have distinct keys.
C12_KeysDistinct ==
    \A r1, r2 \in KeysRequests : r1 # r2 => CacheKey(r1) # CacheKey(r2)

\* Every entry holds the list of the one call its key stands for, and a call
\* returns only items made for its own parameters.
C12_EntriesAndResultsOwn ==
    /\ \A k \in DOMAIN store : \E req \in KeysRequests :
            k = CacheKey(req) /\ AllMadeFor(req, store[k].data)
    /\ calls[1].pc = "done" => AllMadeFor(calls[1].req, calls[1].result)

(* C12: cache-key isolation: two normalizer calls that differ in resource   *)
(* kind or in their identifying parameters never read or write the same     *)
(* cache entry, so a result cached for one is never returned for the other. *)
C12_KeyIsolation == C12_KeysDistinct /\ C12_EntriesAndResultsOwn

\* With the issues of a/b, the issues of a/c and the branches of a/b cached,
\* the call for the pull requests of a/b fetched and returned its own list.
C12_Witness ==
    /\ {CacheKey(Request("issues", "a", "b")), CacheKey(Request("issues", "a", "c")),
        CacheKey(Request("branches", "a", "b"))} \subseteq DOMAIN store
    /\ calls[1].pc = "done"
    /\ calls[1].req = Request("pulls", "a", "b")
    /\ calls[1].before = None
    /\ Len(calls[1].result) = KeysLen

----------------------------------------------------------------------------
\* In this step invocation c was served from the cache.
Hit(c) == Lookup(c) /\ calls'[c].pc = "done"

(* C13: after clearCache() has run, the next normalizer call for any key    *)
(* re-fetches from upstream instead of returning data fetched before the    *)
(* clear, in every interleaving, including when a fetch for that key was in *)
(* flight at the moment clearCache() ran: no call is served an entry        *)
(* written by an invocation that was already in progress at the clear.      *)
C13_RefetchAfterClear ==
    [][\A c \in Calls : Hit(c) => KeyOf(c) \notin history.stale]_vars

----------------------------------------------------------------------------
\* The pages served to an invocation form a complete fetch: full pages, then
\* one short page.
CompleteFetch(cr) ==
    /\ cr.sizes # <<>>
    /\ \A j \in 1..(Len(cr.sizes) - 1) : cr.sizes[j] = 100
    /\ cr.sizes[Len(cr.sizes)] < 100

\* The normalized list of what the upstream served to this invocation alone.
OwnList(cr) ==
    LET raw == ConcatPages(cr.req, cr.sizes, 1)
    IN  IF cr.req.kind = "branches"
        THEN NormalizeBranches(cr.req, raw,
                               [i \in 1..Len(cr.lookups) |-> cr.lookups[i].commit])
        ELSE Normalize(cr.req, raw)

\* Every call that went to the upstream returns the complete result of its
\* own fetch.
C14_ReturnsOwnFetch ==
    \A c \in Calls : calls[c].pc = "done" /\ Fetched(c) =>
        /\ CompleteFetch(calls[c])
        /\ calls[c].result = OwnList(calls[c])

\* The entry of a key changes only when one invocation completes its fetch,
\* and then to that invocation's complete list, whole.
C14_EntryIsOneFetch ==
    [][\A k \in DOMAIN store' : k \notin DOMAIN store \/ store'[k] # store[k] =>
        \E c \in Calls :
            /\ Wrote(c) /\ KeyOf(c) = k
            /\ CompleteFetch(calls'[c])
            /\ store'[k].data = OwnList(calls'[c])]_vars

\* Nothing but an invocation's own completion removes or starts anything:
\* the overlapping invocation is not failed, cancelled or restarted.
C14_OthersUndisturbed ==
    [][\A c, d \in Calls : c # d /\ calls'[c] # calls[c] => calls'[d] = calls[d]]_vars

(* C14: under any interleaving of overlapping normalizer calls for the same *)
(* key the only effect of the race is redundant upstream fetches: every     *)
(* call returns the complete result of its own fetch, and at every moment   *)
(* the cache entry for the key, if present, is the complete normalized      *)
(* result of exactly one successfully completed fetch, never a partial list *)
(* or a mixture of two fetches.                                             *)
C14_RaceIsBenign ==
    /\ []C14_ReturnsOwnFetch
    /\ C14_EntryIsOneFetch
    /\ C14_OthersUndisturbed

\* Two overlapping fetches of the same issues, one served two pages and the
\* other an empty one: each returned its own list, the entry is the later's.
C14_Witness ==
    /\ calls[1].pc = "done" /\ calls[1].sizes = <<100, ShortLen>>
    /\ calls[2].pc = "done" /\ calls[2].sizes = <<0>>
    /\ calls[1].req = calls[2].req
    /\ calls[1].req.kind = "issues"
    /\ store[CacheKey(calls[1].req)].data = calls[1].result
    /\ calls[1].result # calls[2].result

----------------------------------------------------------------------------
\* Invocation c is a getRepositoryBranches that listed its branches.
Enriching(c) ==
    calls[c].req.kind = "branches" /\ calls[c].pc \in {"fanout", "join"}

\* The date the i-th lookup of invocation c resolved, "" when it failed.
ResolvedDate(c, i) ==
    IF calls[c].lookups[i].commit = None THEN ""
    ELSE calls[c].lookups[i].commit[1].commit.committer.date

\* One item per listed branch, in listing order, dated by its own lookup.
C15_OneItemPerBranch ==
    \A c \in Calls :
        calls[c].req.kind = "branches" /\ calls[c].pc = "done" /\ Fetched(c) =>
            LET cr == calls[c]
            IN  /\ Len(cr.result) = Len(cr.results)
                /\ Len(cr.lookups) = Len(cr.results)
                /\ \A i \in 1..Len(cr.results) :
                    /\ cr.result[i].title = cr.results[i].name
                    /\ cr.result[i].createdAt = ResolvedDate(c, i)
                    /\ cr.result[i].updatedAt = ResolvedDate(c, i)
                    /\ cr.lookups[i].commit = None => cr.result[i].createdAt = ""
                    /\ cr.lookups[i].commit # None => cr.result[i].createdAt # ""

\* Once the branches are listed the call cannot fail: whatever its lookups
\* do, it goes on to return.
C15_LookupFailureIsSwallowed ==
    [][\A c \in Calls : Enriching(c) =>
        /\ calls'[c].pc \in {"fanout", "join", "done"}
        /\ calls'[c].results = calls[c].results]_vars

(* C15: branch enrichment tolerates partial failure: for every branch list  *)
(* and every subset of branches whose commit lookup fails, for any reason   *)
(* (a gate refusal included), getRepositoryBranches succeeds and returns    *)
(* exactly one item per listed branch in listing order; each failing branch *)
(* has createdAt = '' and updatedAt = '', every other branch has its        *)
(* resolved commit date in both fields.                                     *)
C15_PartialFailureTolerated ==
    []C15_OneItemPerBranch /\ C15_LookupFailureIsSwallowed

\* Two branches listed, the first lookup failed and the second resolved.
C15_Witness ==
    /\ calls[1].pc = "done"
    /\ Len(calls[1].result) = 2
    /\ Len(calls[1].lookups) = 2
    /\ calls[1].lookups[1] = Settled(None)
    /\ calls[1].lookups[2].commit # None
    /\ calls[1].result[1].createdAt = "" /\ calls[1].result[1].updatedAt = ""
    /\ calls[1].result[2].createdAt # "" /\ calls[1].result[2].updatedAt # ""

----------------------------------------------------------------------------
\* The fetches and responses of invocation c that belong to its i-th lookup.
InFlightFor(c, i) == {m \in network : m.call = c /\ m.slot = i}

\* While the branch list is being paged no lookup exists.
C16_ListBeforeLookups ==
    \A c \in Calls : calls[c].req.kind = "branches" /\ calls[c].pc = "pages" =>
        /\ calls[c].lookups = <<>>
        /\ \A m \in network : m.call = c => m.slot = 0
        /\ calls[c].issued = PageUrls(calls[c].req, Len(calls[c].issued))

\* The lookups start in the step that receives the last page of the list:
\* one per listed branch, for that branch's head commit.
C16_OneLookupPerBranch ==
    [][\A c \in Calls :
        calls[c].req.kind = "branches" /\ calls[c].pc = "pages"
            /\ calls'[c].pc \in {"fanout", "join", "done"} =>
        /\ CompleteFetch(calls'[c])
        /\ calls'[c].results = ConcatPages(calls'[c].req, calls'[c].sizes, 1)
        /\ calls'[c].pc # "done"
        /\ Len(calls'[c].lookups) = Len(calls'[c].results)
        /\ \A i \in 1..Len(calls'[c].results) :
              \/ /\ calls'[c].lookups[i] = Pending
                 /\ \E m \in Sent(c) :
                        /\ InFlightFor(c, i) \cup {x \in Sent(c) : x.slot = i} = {m}
                        /\ m.url = baseUrl \o CommitUrl(calls'[c].req,
                                                        calls'[c].results[i].commit.sha)
              \/ /\ calls'[c].lookups[i] = Settled(None)
                 /\ Gate(rateLimitInfo, now) # None
                 /\ {x \in Sent(c) : x.slot = i} = {}]_vars

\* A lookup that has not settled stays in flight, whatever its siblings did;
\* a lookup that settled has nothing in flight.
C16_SiblingsUndisturbed ==
    \A c \in Calls : Enriching(c) =>
        \A i \in 1..Len(calls[c].lookups) :
            IF calls[c].lookups[i].settled THEN InFlightFor(c, i) = {}
            ELSE Cardinality(InFlightFor(c, i)) = 1

\* The result is written and returned in one step, taken only when every
\* lookup has settled; until then the call has written nothing.
C16_JoinAfterAllSettled ==
    [][\A c \in Calls : calls[c].req.kind = "branches" =>
        /\ Wrote(c) =>
              /\ \A i \in 1..Len(calls[c].lookups) : calls[c].lookups[i].settled
              /\ Len(calls[c].lookups) = Len(calls[c].results)
              /\ {m \in network : m.call = c} = {}
              /\ KeyOf(c) \in DOMAIN store'
              /\ store'[KeyOf(c)].data = calls'[c].result
        /\ Enriching(c) /\ ~Wrote(c) =>
              /\ store' = store \/ Cleared
              /\ calls'[c].pc # "done"]_vars

(* C16: in getRepositoryBranches the branch list is fetched completely (all *)
(* pages) before any commit lookup starts; then exactly one commit lookup   *)
(* per branch is started, and the result is written to the cache and        *)
(* returned only after every one of those lookups has settled, succeeded or *)
(* failed; a failed lookup neither cancels nor fails its siblings.          *)
C16_FanOutAndJoin ==
    /\ []C16_ListBeforeLookups
    /\ C16_OneLookupPerBranch
    /\ []C16_SiblingsUndisturbed
    /\ C16_JoinAfterAllSettled
    /\ C15_LookupFailureIsSwallowed

\* Two lookups started; the first has failed, the second is still in flight
\* and the call is still waiting for it.
C16_Witness ==
    /\ calls[1].pc = "fanout"
    /\ Len(calls[1].lookups) = 2
    /\ calls[1].lookups[1] = Settled(None)
    /\ calls[1].lookups[2] = Pending
    /\ Cardinality(InFlightFor(1, 2)) = 1
    /\ CacheKey(calls[1].req) \notin DOMAIN store

----------------------------------------------------------------------------
\* Invocation c is a getRepositoryBranches that returned what it fetched.
BranchesReturned(c) ==
    calls[c].req.kind = "branches" /\ calls[c].pc = "done" /\ Fetched(c)

\* C17 as stated: for a branch whose head-commit lookup succeeds, createdAt
\* and updatedAt equal the author date of that head commit.
C17_AuthorDate ==
    \A c \in Calls : BranchesReturned(c) =>
        \A i \in 1..Len(calls[c].result) :
            calls[c].lookups[i].commit # None =>
                LET date == calls[c].lookups[i].commit[1].commit.author.date
                IN  /\ calls[c].result[i].createdAt = date
                    /\ calls[c].result[i].updatedAt = date

(* C17 (amended): for a branch whose head-commit lookup succeeds, the       *)
(* item's createdAt and updatedAt equal the committer date of that head     *)
(* commit.                                                                  *)
C17_CommitterDate ==
    \A c \in Calls : BranchesReturned(c) =>
        \A i \in 1..Len(calls[c].result) :
            calls[c].lookups[i].commit # None =>
                LET date == calls[c].lookups[i].commit[1].commit.committer.date
                IN  /\ calls[c].result[i].createdAt = date
                    /\ calls[c].result[i].updatedAt = date

\* A branch whose head commit was authored on one day and committed on
\* another is dated by the day it was committed.
C17_Witness ==
    /\ BranchesReturned(1)
    /\ Len(calls[1].result) >= 1
    /\ calls[1].lookups[1].commit # None
    /\ calls[1].lookups[1].commit[1].commit.author.date
            # calls[1].lookups[1].commit[1].commit.committer.date
    /\ calls[1].result[1].createdAt
            = calls[1].lookups[1].commit[1].commit.committer.date

----------------------------------------------------------------------------
\* The positions of the fetched records that carry no pull-request marker.
Unmarked(raw) == {i \in 1..Len(raw) : raw[i].pull_request = None}

\* list is, item for item and in upstream order, the records of raw at the
\* positions in keep. The upstream numbers its records in the order in
\* which it serves them, so the item of the record at position i carries
\* number i, and items in upstream order carry increasing numbers.
ItemsOf(list, raw, keep, Same(_, _)) ==
    /\ \A i \in 1..Len(raw) : raw[i].number = i
    /\ Len(list) = Cardinality(keep)
    /\ \A j \in 1..Len(list) :
          /\ list[j].number \in keep
          /\ Same(list[j], raw[list[j].number])
    /\ \A j \in 1..(Len(list) - 1) : list[j].number < list[j + 1].number

IssueOf(item, record) ==
    /\ item.type = "issue"
    /\ item.state = record.state
    /\ item.number = record.number

\* The list holds no item of a record that the upstream marks as a pull
\* request.
NoMarkedRecord(req, list) ==
    \A j \in 1..Len(list) : RawRecord(req, list[j].number).pull_request = None

(* C18: getRepositoryIssues returns exactly the fetched records that carry  *)
(* no pull-request marker, in upstream order, each as an item with type =   *)
(* issue, state taken verbatim from the record and number set; no record    *)
(* carrying the marker ever appears in the result or in the cached list.    *)
C18_IssuesWithoutPullRequests ==
    /\ \A c \in Calls :
          calls[c].req.kind = "issues" /\ calls[c].pc = "done" /\ Fetched(c) =>
              /\ ItemsOf(calls[c].result, calls[c].results,
                         Unmarked(calls[c].results), IssueOf)
              /\ NoMarkedRecord(calls[c].req, calls[c].result)
    /\ \A c \in Calls : calls[c].req.kind = "issues" /\ calls[c].pc = "done" =>
          NoMarkedRecord(calls[c].req, calls[c].result)
    /\ \A req \in PagesRequests : CacheKey(req) \in DOMAIN store =>
          /\ NoMarkedRecord(req, store[CacheKey(req)].data)
          /\ \A j \in 1..Len(store[CacheKey(req)].data) :
                store[CacheKey(req)].data[j].type = "issue"

\* Two pages fetched, some of their records marked: the result is shorter
\* than what was fetched and is what the cache holds.
C18_Witness ==
    /\ calls[1].pc = "done"
    /\ calls[1].sizes = <<100, ShortLen>>
    /\ Unmarked(calls[1].results) # {}
    /\ Cardinality(Unmarked(calls[1].results)) < Len(calls[1].results)
    /\ Len(calls[1].result) = Cardinality(Unmarked(calls[1].results))
    /\ CacheKey(calls[1].req) \in DOMAIN store
    /\ store[CacheKey(calls[1].req)].data = calls[1].result

----------------------------------------------------------------------------
PullOf(item, record) ==
    /\ item.type = "pr"
    /\ item.number = record.number
    /\ item.state = IF record.merged_at # None THEN "merged" ELSE record.state

(* C19: getRepositoryPulls maps every fetched record 1:1 (no filtering,     *)
(* upstream order) to an item with type = pr whose state is 'merged'        *)
(* whenever the record's merge timestamp is present, regardless of its raw  *)
(* state, and otherwise equals the raw open/closed state.                   *)
C19_PullsOneToOne ==
    \A c \in Calls :
        calls[c].req.kind = "pulls" /\ calls[c].pc = "done" /\ Fetched(c) =>
            /\ ItemsOf(calls[c].result, calls[c].results,
                       1..Len(calls[c].results), PullOf)
            /\ \A i \in 1..Len(calls[c].result) :
                  calls[c].result[i].state \in {"merged", "open", "closed"}

\* Records 1 to 4 are closed and merged, open, closed, open and merged:
\* their items are merged, open, closed, merged.
C19_Witness ==
    /\ calls[1].req.kind = "pulls" /\ calls[1].pc = "done"
    /\ Len(calls[1].results) >= 4
    /\ calls[1].results[1].state = "closed" /\ calls[1].results[1].merged_at # None
    /\ calls[1].results[4].state = "open" /\ calls[1].results[4].merged_at # None
    /\ calls[1].results[2].merged_at = None /\ calls[1].results[3].merged_at = None
    /\ calls[1].result[1].state = "merged"
    /\ calls[1].result[2].state = "open"
    /\ calls[1].result[3].state = "closed"
    /\ calls[1].result[4].state = "merged"

----------------------------------------------------------------------------
BranchItemShape(item) ==
    /\ item.type = "branch"
    /\ item.labels = <<>>
    /\ item.assignees = <<>>
    /\ item.author = ""
    /\ DOMAIN item \cap {"state", "number", "isDraft"} = {}
    /\ item.createdAt = item.updatedAt

(* C20: every branch item, in results and in the cache, has empty labels,   *)
(* empty assignees, empty author, no state/number/isDraft, and createdAt    *)
(* equal to updatedAt.                                                      *)
C20_BranchItemShape ==
    /\ \A c \in Calls : calls[c].req.kind = "branches" /\ calls[c].pc = "done" =>
          \A i \in 1..Len(calls[c].result) : BranchItemShape(calls[c].result[i])
    /\ \A req \in BranchesRequests : CacheKey(req) \in DOMAIN store =>
          \A i \in 1..Len(store[CacheKey(req)].data) :
              BranchItemShape(store[CacheKey(req)].data[i])

\* A call served from the cache two branch items, one dated and one not.
C20_Witness ==
    /\ calls[1].req.kind = "branches" /\ calls[1].pc = "done"
    /\ calls[1].issued = <<>>
    /\ Len(calls[1].result) = 2
    /\ calls[1].result[1].createdAt # ""
    /\ calls[1].result[2].createdAt = ""
    /\ store[CacheKey(calls[1].req)].data = calls[1].result

----------------------------------------------------------------------------
\* The id the normalizer of req gives to the upstream entity numbered n.
IdOf(req, n) ==
    (IF req.kind = "issues" THEN "issue-" ELSE "pr-")
        \o req.owner \o "-" \o req.repo \o "-" \o ToString(n)

(* C21: within the list returned by one normalizer call no two items have   *)
(* the same id, and re-fetching the same upstream entity (after expiry or   *)
(* clearCache) yields the same id, the upstream id of the entity being      *)
(* unchanged.                                                               *)
C21_IdsUniqueAndStable ==
    \A c \in Calls : calls[c].pc = "done" =>
        /\ \A i, j \in 1..Len(calls[c].result) :
              i # j => calls[c].result[i].id # calls[c].result[j].id
        /\ \A i \in 1..Len(calls[c].result) :
              calls[c].result[i].id = IdOf(calls[c].req, calls[c].result[i].number)

----------------------------------------------------------------------------
(* C22: item ids are globally unique: two normalized items produced by any  *)
(* normalizer calls have equal ids only if they have the same kind, the     *)
(* same owner, the same repo and the same upstream id.                      *)
C22_IdsGloballyUnique ==
    \A r1, r2 \in IdsRequests :
        CacheKey(r1) \in DOMAIN store /\ CacheKey(r2) \in DOMAIN store =>
            LET d1 == store[CacheKey(r1)].data
                d2 == store[CacheKey(r2)].data
            IN  \A i \in 1..Len(d1), j \in 1..Len(d2) :
                    d1[i].id = d2[j].id =>
                        /\ r1 = r2
                        /\ d1[i].number = d2[j].number

----------------------------------------------------------------------------
(* Error responses: one caller, an upstream that answers a page request    *)
(* with a non-success status and any kind of body                          *)

ErrorsLen == 2

ErrorsUpstream == Upstream(1, {ErrorsLen}, 0)
ErrorsRequests == {Request("repos", "a", ""), Request("issues", "a", "b")}
ErrorsStatuses == {403, 404}
ErrorsBodies == ErrorBodies \cup {ValidBody(JObject("message" :> ""))}

ErrorsNext ==
    \/ \E req \in ErrorsRequests : Call(1, req)
    \/ \E m \in network, status \in {200} \cup ErrorsStatuses :
            Respond(m, status, NoHeaders)
    \/ \E m \in network, body \in ErrorsBodies : ErrorBody(m, body)
    \/ \E m \in network : \E n \in Served(ErrorsUpstream, m) : PageBody(m, n)
    \/ Return(1)
    \/ Tick(TickMs)

SpecErrors == Init /\ [][ErrorsNext]_vars

\* The body is a JSON object that has a message field.
MessagePresent(body) ==
    body.valid /\ body.json.type = "object" /\ "message" \in DOMAIN body.json.fields

GenericMessage(status) ==
    "GitHub API error: " \o ToString(status) \o " " \o StatusText(status)

\* In this step the page request m failed with an Error of this message.
FailedWith(m, message) ==
    /\ calls'[m.call].pc = "failed"
    /\ calls'[m.call].result = [name |-> "Error", message |-> message]

----------------------------------------------------------------------------
(* C25: in every reachable state the tracker's remaining is an integer      *)
(* that is at least 0, whatever upstream responses and header values have   *)
(* been received.                                                           *)
C25_RemainingNatural ==
    IsNumber(rateLimitInfo.remaining) /\ rateLimitInfo.remaining >= 0

----------------------------------------------------------------------------
\* In this step request() was entered for a page by invocation c and threw.
Refused(c) ==
    /\ PageRequestEntered(c)
    /\ calls'[c].pc = "failed"
    /\ calls'[c].result.name = "Error"

(* C30: no spurious gating. The tracker starts with a remaining of 5000;    *)
(* its remaining changes only when a response carries the header            *)
(* x-ratelimit-remaining, to the value of that header; and a request is     *)
(* refused only when that remaining is at most 0 and the recorded reset     *)
(* time is still ahead of the clock. So no request is refused while the     *)
(* tracker still holds its initial remaining.                               *)
C30_NoSpuriousGating ==
    /\ rateLimitInfo = [remaining |-> InitialRemaining,
                        reset |-> now + InitialResetDelay,
                        limit |-> InitialLimit]
    /\ [][/\ \A c \in Calls :
                Refused(c) => /\ rateLimitInfo.remaining <= 0
                              /\ rateLimitInfo.reset > now
          /\ rateLimitInfo'.remaining # rateLimitInfo.remaining
                => \E m \in network, m2 \in network' :
                        /\ Responded(m, m2)
                        /\ "x-ratelimit-remaining" \in DOMAIN m2.headers
                        /\ rateLimitInfo'.remaining =
                                Decimal(m2.headers["x-ratelimit-remaining"])
          /\ rateLimitInfo.remaining = InitialRemaining
                => \A c \in Calls : ~Refused(c)]_vars

\* A call refused at its first page: an earlier response reported a
\* remaining of 0 and the reset time is still ahead.
C30_Witness ==
    /\ calls[1].pc = "failed"
    /\ calls[1].issued = <<>>
    /\ calls[1].result.name = "Error"
    /\ rateLimitInfo.remaining = 0
    /\ rateLimitInfo.reset > now

----------------------------------------------------------------------------
\* The commit lookups of invocation c that are in flight.
LookupsInFlight(c) == {m \in network : m.call = c /\ m.slot > 0}

(* C29: getRepositoryBranches limits how many commit lookups are in flight  *)
(* at once: a call for a repository of more than one branch never has a     *)
(* lookup in flight for every one of its branches at the same time.         *)
C29_LookupsLimited ==
    \A c \in Calls :
        calls[c].req.kind = "branches" /\ Len(calls[c].results) > 1 =>
            Cardinality(LookupsInFlight(c)) < Len(calls[c].results)

----------------------------------------------------------------------------
\* In this step an entry was written or replaced under key k.
Written(k) == k \in DOMAIN store' /\ (k \notin DOMAIN store \/ store'[k] # store[k])

\* Nothing of invocation c is outstanding after this step.
AllCompleted(c) ==
    /\ CompleteFetch(calls'[c])
    /\ \A i \in 1..Len(calls'[c].lookups) : calls'[c].lookups[i].settled
    /\ \A m \in network' : m.call # c

(* C27: a normalizer consults the cache first. A call that finds an         *)
(* unexpired entry under its key returns that entry's list in the same      *)
(* step, starts no fetch, and leaves the tracker and the store alone,       *)
(* whether the gate is open or closed. An entry is written only by an       *)
(* invocation of which every page and every lookup has completed, as the    *)
(* list that invocation returns, and an invocation that went to the         *)
(* upstream has written its entry when it returns.                          *)
C27_CacheFirst ==
    [][/\ \A c \in Calls :
            (/\ Lookup(c)
             /\ KeyOf(c) \in DOMAIN store
             /\ ~CacheExpired(store[KeyOf(c)], now))
            => /\ calls'[c].pc = "done"
               /\ calls'[c].result = store[KeyOf(c)].data
               /\ Sent(c) = {}
               /\ calls'[c].issued = <<>>
               /\ rateLimitInfo' = rateLimitInfo
               /\ store' = store
       /\ \A k \in DOMAIN store' :
            Written(k)
            => \E c \in Calls :
                    /\ Wrote(c)
                    /\ KeyOf(c) = k
                    /\ AllCompleted(c)
                    /\ store'[k] = [data |-> calls'[c].result,
                                    expiresAt |-> now + CACHE_TTL_MS]
       /\ \A c \in Calls :
            Wrote(c) => /\ KeyOf(c) \in DOMAIN store'
                        /\ store'[KeyOf(c)].data = calls'[c].result]_vars

\* A call served two branch items from the cache while the gate was closed.
C27_Witness ==
    /\ calls[1].req.kind = "branches" /\ calls[1].pc = "done"
    /\ calls[1].issued = <<>>
    /\ Len(calls[1].result) = 2
    /\ Gate(rateLimitInfo, now) # None
    /\ CacheKey(calls[1].req) \in DOMAIN store

----------------------------------------------------------------------------
(* Startup: a process started with or without GITHUB_TOKEN, one inbound    *)
(* request at a time                                                       *)

StartupLen == 2

StartupUpstream == Upstream(0, {0, StartupLen}, 0)
StartupRequests == {Request("repos", "a", ""), Request("issues", "a", "b")}
StartupTokens == {"", "t"}

StartupInit ==
    /\ ServiceLoaded
    /\ process \in {Loaded(token) : token \in StartupTokens}
    /\ snapshot = None
    /\ browser = Session(1, <<>>)

StartupNext ==
    \/ Listen
    \/ \E req \in StartupRequests : DataRoute(1, req)
    \/ HealthRoute
    \/ ClearRoute
    \/ \E m \in network : Respond(m, 200, NoHeaders)
    \/ \E m \in network : \E n \in Served(StartupUpstream, m) : PageBody(m, n)
    \/ Return(1)
    \/ Tick(TickMs)

SpecStartup == StartupInit /\ [][StartupNext]_vars

(* C23: a missing credential is fatal at startup and never a per-call       *)
(* error: a process without a credential does not reach the state of        *)
(* serving requests, no inbound call fails with the missing-credential      *)
(* error, and no service instance without a credential is retained.         *)
C23_MissingCredentialIsFatal ==
    /\ process.token = "" =>
          /\ ~process.listening
          /\ \A c \in Calls :
                ~(calls[c].pc = "failed" /\ calls[c].result = MissingTokenError)
          /\ process.reply # None => process.reply[1].message # MissingTokenError.message
    /\ process.githubService # None => process.githubService[1].token # ""

----------------------------------------------------------------------------
(* The tracker and its snapshots: one caller of the normalizers, an        *)
(* upstream that may close the gate, and a holder of a snapshot who        *)
(* writes to it                                                            *)

TrackerLen == 2

TrackerUpstream == Upstream(0, {0, TrackerLen}, 0)
TrackerRequests == {Request("pulls", "a", "b")}
TrackerFields == {"remaining", "reset", "limit"}

TrackerNext ==
    \/ \E req \in TrackerRequests : Call(1, req)
    \/ \E m \in network, status \in {200, 404}, headers \in {NoHeaders, Closing} :
            Respond(m, status, headers)
    \/ \E m \in network : ErrorBody(m, InvalidBody)
    \/ \E m \in network : \E n \in Served(TrackerUpstream, m) : PageBody(m, n)
    \/ Return(1)
    \/ ClearCache
    \/ Tick(TickMs)
    \/ TakeSnapshot
    \/ \E field \in TrackerFields : ModifySnapshot(field, 0)

SpecTracker == Init /\ [][TrackerNext]_vars

(* C26: the tracker changes only in a step in which a fetch resolves with   *)
(* its response. A call served from the cache, a request refused at the     *)
(* gate, clearCache(), getRateLimitInfo() and an assignment to a field of   *)
(* the object getRateLimitInfo() returned leave remaining, reset and limit  *)
(* as they were.                                                            *)
C26_TrackerFrame ==
    [][/\ rateLimitInfo' # rateLimitInfo
            => \E m \in network, m2 \in network' : Responded(m, m2)
       /\ \A c \in Calls : Hit(c) \/ Refused(c) => rateLimitInfo' = rateLimitInfo
       /\ Cleared => rateLimitInfo' = rateLimitInfo
       /\ snapshot' # snapshot => rateLimitInfo' = rateLimitInfo]_vars

\* The holder of a snapshot set its remaining to 0; the tracker still has
\* the remaining it started with, and the next request was not refused.
C26_Witness ==
    /\ snapshot # None
    /\ snapshot[1].fields.remaining = 0
    /\ rateLimitInfo.remaining = InitialRemaining
    /\ calls[1].pc = "pages"

----------------------------------------------------------------------------
(* The frontend: one browser tab over several sessions (page loads), a     *)
(* backend that answers each request with a list or with an error          *)

MaxSessions == 3

BrowserOrgs == {"a"}
Repository(owner, name) == [name |-> name, fullName |-> owner \o "/" \o name]
BrowserRepositories(org) ==
    {<<>>, <<Repository(org, "b")>>, <<Repository(org, "b"), Repository(org, "c")>>}
\* What RepoSelector may confirm: one of the repositories, or all of them.
Selections(repositories) ==
    {<<repositories[i]>> : i \in 1..Len(repositories)}
        \cup (IF repositories = <<>> THEN {} ELSE {repositories})
BrowserDashboards ==
    {EmptyDashboardData,
     [issues |-> <<[id |-> "issue-a-b-1", type |-> "issue"]>>, pulls |-> <<>>,
      branches |-> <<[id |-> "branch-a-b-main", type |-> "branch"]>>]}

server == <<now, ticks, store, rateLimitInfo, calls, network, history,
            process, snapshot>>

ItemKinds == <<"issues", "pulls", "branches">>

\* A call of fetchDashboardData in flight (App.tsx 111-148): one request
\* for every repository and kind; `results` holds the settled ones.
Load(org, repos) ==
    [kind |-> "dashboard", org |-> org, repos |-> repos, results |-> {}]

\* What the callback of request (i, kind) returns (App.tsx 119-126): []
\* for a status that is not ok, data.items otherwise.
Returned(results, i, kind) ==
    LET r == CHOOSE r \in results : r.repo = i /\ r.kind = kind
    IN  IF r.ok THEN r.items ELSE <<>>

\* results.flat() for one kind (App.tsx 150-154), over repositories 1..n.
RECURSIVE Flat(_, _, _)
Flat(results, kind, n) ==
    IF n = 0 THEN <<>>
    ELSE Flat(results, kind, n - 1) \o Returned(results, n, kind)

\* The handler's state changes are rendered and the effects run.
Render(app, pending) ==
    browser' = [browser EXCEPT !.app = app,
                               !.pending = pending,
                               !.localStorage = Rendered(browser.localStorage, app)]

\* handleOrgSubmit up to its fetch (App.tsx 89-94).
HandleOrgSubmit(org) ==
    /\ browser.app.state = "org-input"
    /\ ~browser.app.loading
    /\ browser.pending = None
    /\ Render([browser.app EXCEPT !.loading = TRUE, !.error = None],
              Some([kind |-> "repos", org |-> org]))
    /\ UNCHANGED server

\* handleOrgSubmit after its fetch (App.tsx 95-108).
ReposResponse(ok, repositories) ==
    /\ browser.pending # None
    /\ browser.pending[1].kind = "repos"
    /\ repositories \in BrowserRepositories(browser.pending[1].org)
    /\ Render(IF ok
              THEN [browser.app EXCEPT !.organization = browser.pending[1].org,
                                       !.repositories = repositories,
                                       !.state = "repo-select",
                                       !.loading = FALSE]
              ELSE [browser.app EXCEPT !.error = Some("Failed to fetch repositories"),
                                       !.loading = FALSE],
              None)
    /\ UNCHANGED server

\* handleRepoSelection and fetchDashboardData up to the fetches
\* (App.tsx 164-167, 111-148).
HandleRepoSelection(repos) ==
    /\ browser.app.state = "repo-select"
    /\ ~browser.app.loading
    /\ browser.pending = None
    /\ Render([browser.app EXCEPT !.selectedRepos = repos, !.loading = TRUE,
                                  !.error = None],
              Some(Load(browser.app.organization, repos)))
    /\ UNCHANGED server

\* fetchDashboardData after Promise.all settled (App.tsx 150-161): every
\* fetch resolved (a list, or [] for an error status), or one rejected.
DashboardResponse(ok, data) ==
    /\ browser.pending # None
    /\ browser.pending[1].kind = "dashboard"
    /\ Render(IF ok
              THEN [browser.app EXCEPT !.dashboardData = data,
                                       !.state = "dashboard",
                                       !.loading = FALSE]
              ELSE [browser.app EXCEPT !.error = Some("Failed to fetch"),
                                       !.loading = FALSE],
              None)
    /\ UNCHANGED server

\* One request of a load settles (App.tsx 119-147): the backend answered,
\* with a status that is ok or not, or the fetch or response.json() threw.
ItemsResponse(i, kind, outcome) ==
    /\ browser.pending # None
    /\ browser.pending[1].kind = "dashboard"
    /\ i \in 1..Len(browser.pending[1].repos)
    /\ \A r \in browser.pending[1].results : ~(r.repo = i /\ r.kind = kind)
    /\ browser' = [browser EXCEPT !.pending[1].results =
                        @ \cup {[repo |-> i, kind |-> kind, ok |-> outcome.ok,
                                 thrown |-> outcome.thrown, items |-> outcome.items]}]
    /\ UNCHANGED server

\* A load that treats an answer with an error status like a thrown error.
LoadRejectsOnFailure ==
    /\ browser.pending # None
    /\ browser.pending[1].kind = "dashboard"
    /\ \E r \in browser.pending[1].results : r.thrown \/ ~r.ok
    /\ DashboardResponse(FALSE, browser.app.dashboardData)

\* Promise.all settles (App.tsx 117, 148-161): it rejects with the first
\* request that threw, and resolves once every request has returned.
LoadSettled ==
    /\ browser.pending # None
    /\ browser.pending[1].kind = "dashboard"
    /\ LET load == browser.pending[1]
           n == Len(load.repos)
       IN  IF \E r \in load.results : r.thrown
           THEN DashboardResponse(FALSE, browser.app.dashboardData)
           ELSE /\ Cardinality(load.results) = 3 * n
                /\ DashboardResponse(TRUE,
                        [issues |-> Flat(load.results, "issues", n),
                         pulls |-> Flat(load.results, "pulls", n),
                         branches |-> Flat(load.results, "branches", n)])

\* handleBackToOrg (App.tsx 169-177).
HandleBackToOrg ==
    /\ browser.app.state # "org-input"
    /\ LET app == [browser.app EXCEPT !.state = "org-input",
                                      !.organization = "",
                                      !.repositories = <<>>,
                                      !.selectedRepos = <<>>,
                                      !.dashboardData = EmptyDashboardData,
                                      !.error = None]
       IN  browser' = [browser EXCEPT
                          !.app = app,
                          !.localStorage = Rendered(clearStorage(browser.localStorage), app)]
    /\ UNCHANGED server

\* handleBackToRepos (App.tsx 179-183).
HandleBackToRepos ==
    /\ browser.app.state = "dashboard"
    /\ Render([browser.app EXCEPT !.state = "repo-select",
                                  !.dashboardData = EmptyDashboardData,
                                  !.error = None],
              browser.pending)
    /\ UNCHANGED server

\* handleRefresh (App.tsx 185-189), one fetchDashboardData at a time.
HandleRefresh ==
    /\ browser.app.state = "dashboard"
    /\ browser.app.selectedRepos # <<>>
    /\ browser.pending = None
    /\ Render([browser.app EXCEPT !.loading = TRUE, !.error = None],
              Some(Load(browser.app.organization, browser.app.selectedRepos)))
    /\ UNCHANGED server

\* The page is loaded again: the session ends, what it awaited is dropped,
\* and App is mounted on the localStorage the session left.
Reload ==
    /\ browser.session < MaxSessions
    /\ browser' = Session(browser.session + 1, browser.localStorage)
    /\ UNCHANGED server

BrowserNext ==
    \/ \E org \in BrowserOrgs : HandleOrgSubmit(org)
    \/ \E ok \in BOOLEAN, org \in BrowserOrgs :
            \E repositories \in BrowserRepositories(org) : ReposResponse(ok, repositories)
    \/ \E repos \in Selections(browser.app.repositories) : HandleRepoSelection(repos)
    \/ \E ok \in BOOLEAN, data \in BrowserDashboards : DashboardResponse(ok, data)
    \/ HandleBackToOrg
    \/ HandleBackToRepos
    \/ HandleRefresh
    \/ Reload

SpecBrowser == Init /\ [][BrowserNext]_vars

(* C28: no persistence across sessions. When a session ends nothing is      *)
(* kept in local storage, and the session that follows starts at the        *)
(* organization-input screen with no organization, no repositories and no   *)
(* dashboard data, whatever happened in the sessions before.                *)
C28_NoPersistence ==
    [][browser'.session # browser.session =>
          /\ DOMAIN browser.localStorage = {}
          /\ browser'.app.state = "org-input"
          /\ browser'.app.organization = ""
          /\ browser'.app.repositories = <<>>
          /\ browser'.app.selectedRepos = <<>>
          /\ browser'.app.dashboardData = EmptyDashboardData]_vars

\* The claim without its sentence about local storage: a new session starts
\* at the organization-input screen with nothing loaded.
C28_FreshStart ==
    [][browser'.session # browser.session =>
          /\ browser'.app.state = "org-input"
          /\ browser'.app.organization = ""
          /\ browser'.app.repositories = <<>>
          /\ browser'.app.dashboardData = EmptyDashboardData]_vars

----------------------------------------------------------------------------
\* In this step invocation c read the body of a response that reported a
\* remaining of 0, and the body was a full page.
FullPageReportedZero(c) ==
    /\ Processed(c, perPage)
    /\ \E m \in network \ network' :
            /\ m.call = c /\ m.slot = 0 /\ m.stage = "json"
            /\ "x-ratelimit-remaining" \in DOMAIN m.headers
            /\ m.headers["x-ratelimit-remaining"] = <<"0">>

(* C31: the gate applies between pages. When the response to a page         *)
(* reported a remaining of 0, the page was full and the recorded reset time *)
(* is still ahead, the request for the next page is refused: no fetch is    *)
(* started, the normalizer call fails with the rate-limit error, it does    *)
(* not return the pages it had, and no cache entry is written.              *)
C31_GateBetweenPages ==
    [][\A c \in Calls :
        FullPageReportedZero(c) /\ rateLimitInfo.reset > now
        => /\ calls'[c].pc = "failed"
           /\ RateLimitFailure(calls'[c], (rateLimitInfo.reset - now + 999) \div 1000)
           /\ Sent(c) = {}
           /\ \A m \in network' : m.call # c
           /\ calls'[c].issued = calls[c].issued
           /\ NothingWritten
           /\ CacheKey(calls'[c].req) \in DOMAIN store'
                => Some(store'[CacheKey(calls'[c].req)]) = calls[c].before]_vars

\* A call refused after its first full page, whose response reported a
\* remaining of 0 and no reset time: the initial reset time, an hour out,
\* still stands, and nothing is cached under the call's key.
C31_Witness ==
    /\ calls[1].pc = "failed"
    /\ calls[1].sizes = <<perPage>>
    /\ Len(calls[1].results) = perPage
    /\ rateLimitInfo.remaining = 0
    /\ rateLimitInfo.reset = StartTime + InitialResetDelay
    /\ CacheKey(calls[1].req) \notin DOMAIN store

----------------------------------------------------------------------------
\* The list has an item without dates: its commit lookup had failed.
Degraded(list) == \E i \in 1..Len(list) : list[i].createdAt = ""

(* C32: a degraded branch listing is cached like a complete one. The call   *)
(* whose lookups have all settled, some or all of them failed, stores the   *)
(* list it returns, empty dates included, for 5 minutes; and a later call   *)
(* that finds this entry unexpired returns it, empty dates included, and    *)
(* starts no fetch: the failed lookups are not attempted again.             *)
C32_DegradedIsCached ==
    [][\A c \in Calls :
        /\ (calls[c].pc = "join" /\ calls'[c].pc = "done")
            => /\ calls'[c].result = OwnList(calls[c])
               /\ KeyOf(c) \in DOMAIN store'
               /\ store'[KeyOf(c)] = [data |-> calls'[c].result,
                                      expiresAt |-> now + CACHE_TTL_MS]
               /\ (\E i \in 1..Len(calls[c].lookups) : calls[c].lookups[i].commit = None)
                    => Degraded(store'[KeyOf(c)].data)
        /\ (/\ Lookup(c)
            /\ calls'[c].req.kind = "branches"
            /\ KeyOf(c) \in DOMAIN store
            /\ ~CacheExpired(store[KeyOf(c)], now)
            /\ Degraded(store[KeyOf(c)].data))
            => /\ calls'[c].pc = "done"
               /\ calls'[c].result = store[KeyOf(c)].data
               /\ Sent(c) = {}
               /\ calls'[c].issued = <<>>
               /\ calls'[c].lookups = <<>>
               /\ store' = store]_vars

\* A call served from the cache two branches without dates while the gate
\* was open: nothing kept it from looking the commits up again.
C32_Witness ==
    /\ calls[1].req.kind = "branches" /\ calls[1].pc = "done"
    /\ calls[1].issued = <<>>
    /\ Len(calls[1].result) = 2
    /\ calls[1].result[1].createdAt = "" /\ calls[1].result[2].createdAt = ""
    /\ Gate(rateLimitInfo, now) = None
    /\ CacheKey(calls[1].req) \in DOMAIN store

----------------------------------------------------------------------------
(* The fan-out and the quota: one caller, a repository of a few branches,  *)
(* an upstream that reports a remaining of 1                               *)

QuotaMaxBranches == 3

QuotaUpstream == Upstream(0, {}, QuotaMaxBranches)
QuotaRequests == {Request("branches", "a", "b")}
OneLeft == "x-ratelimit-remaining" :> <<"1">>

QuotaNext ==
    \/ \E req \in QuotaRequests : Call(1, req)
    \/ \E m \in network, headers \in {NoHeaders, OneLeft, Closing} :
            Respond(m, 200, headers)
    \/ \E m \in network : \E n \in Served(QuotaUpstream, m) : PageBody(m, n)
    \/ \E m \in network : CommitBody(m)
    \/ Join(1)
    \/ Return(1)
    \/ Tick(PastTtl)

SpecQuota == Init /\ [][QuotaNext]_vars

\* In this step invocation c got the last page of its branch list and ran
\* the callback of every branch up to its first await.
FannedOut(c) ==
    /\ calls[c].req.kind = "branches"
    /\ calls[c].pc = "pages"
    /\ calls'[c].pc \in {"fanout", "join"}

(* C33: in the fan-out the gate is evaluated for every commit lookup        *)
(* against the same tracker, before the response of any of them can update  *)
(* it. If the gate is open when the fan-out starts, one fetch is started    *)
(* for every branch, whatever the tracker's remaining, also when there are  *)
(* more branches than that; if it is closed, none is started. The tracker   *)
(* is as it was.                                                            *)
C33_GateDoesNotBoundFanOut ==
    [][\A c \in Calls :
        FannedOut(c)
        => /\ rateLimitInfo' = rateLimitInfo
           /\ Len(calls'[c].lookups) = Len(calls'[c].results)
           /\ IF Gate(rateLimitInfo, now) = None
              THEN /\ Cardinality(Sent(c)) = Len(calls'[c].results)
                   /\ \A i \in 1..Len(calls'[c].results) :
                        /\ calls'[c].lookups[i] = Pending
                        /\ \E m \in Sent(c) : m.slot = i
              ELSE /\ Sent(c) = {}
                   /\ \A i \in 1..Len(calls'[c].results) :
                        calls'[c].lookups[i] = Settled(None)]_vars

\* Three lookups in flight while the tracker says that one request remains.
C33_Witness ==
    /\ calls[1].pc = "fanout"
    /\ Len(calls[1].results) = 3
    /\ rateLimitInfo.remaining = 1
    /\ Cardinality({m \in network : m.call = 1 /\ m.slot > 0 /\ m.stage = "fetch"}) = 3

----------------------------------------------------------------------------
(* Expiry: two callers of one collection whose fetches may overlap, an     *)
(* upstream whose collection changes, a clock that can stop on an expiry   *)
(* instant or pass it                                                      *)

ExpiryLen == 2

ExpiryUpstream == Upstream(0, {0, ExpiryLen}, 0)
ExpiryRequests == {Request("issues", "a", "b")}

ExpiryNext ==
    \/ \E c \in Calls, req \in ExpiryRequests : Call(c, req)
    \/ \E m \in network : Respond(m, 200, NoHeaders)
    \/ \E m \in network : \E n \in Served(ExpiryUpstream, m) : PageBody(m, n)
    \/ \E c \in Calls : Return(c)
    \/ Tick(TickMs)
    \/ Tick(CACHE_TTL_MS)

SpecExpiry == Init /\ [][ExpiryNext]_vars

\* No entry expires later than 5 minutes from now: none was set later than
\* now, and none had its expiry moved.
C34_ExpiryWithinTtl ==
    \A k \in DOMAIN store : store[k].expiresAt <= now + CACHE_TTL_MS

\* An entry changes only by a set on its key, which replaces the value and
\* the expiry together; a get that returns the entry leaves it as it is and
\* returns it no later than its expiry.
C34_OnlySetMovesExpiry ==
    [][/\ \A k \in DOMAIN store \cap DOMAIN store' :
            store'[k] # store[k]
            => \E c \in Calls :
                    /\ Wrote(c) /\ KeyOf(c) = k
                    /\ store'[k] = [data |-> calls'[c].result,
                                    expiresAt |-> now + CACHE_TTL_MS]
       /\ \A c \in Calls :
            Hit(c) => /\ store' = store
                      /\ now <= store[KeyOf(c)].expiresAt]_vars

(* C34: cache expiry is fixed, not sliding: get() never changes an entry's  *)
(* expiresAt, so an entry is served for at most 5 minutes after the set()   *)
(* that wrote it however often it is read; a later set() on the same key    *)
(* replaces both the value and the expiry.                                  *)
C34_FixedExpiry == []C34_ExpiryWithinTtl /\ C34_OnlySetMovesExpiry

\* Both callers were served the entry at the very instant of its expiry,
\* 5 minutes after it was set, and the entry still expires at that instant.
C34_Witness ==
    /\ calls[1].pc = "done" /\ calls[1].issued = <<>>
    /\ calls[2].pc = "done" /\ calls[2].issued = <<>>
    /\ CacheKey(calls[1].req) \in DOMAIN store
    /\ store[CacheKey(calls[1].req)].expiresAt = now
    /\ now = StartTime + CACHE_TTL_MS

----------------------------------------------------------------------------
(* Routes: a server started with or without GITHUB_TOKEN, one list request *)
(* at a time, an upstream that may close the gate, answer with an error    *)
(* status or send a body that cannot be decoded                            *)

RoutesLen == 2

RoutesUpstream == Upstream(0, {0, RoutesLen}, 0)
RoutesRequests == {Request("repos", "a", ""), Request("issues", "a", "b")}

\* The upstream answers every fetch and every body is read to its end.
RoutesDeliver ==
    \/ \E m \in network, status \in {200, 404}, headers \in {NoHeaders, Closing} :
            Respond(m, status, headers)
    \/ \E m \in network : ErrorBody(m, ValidBody(JObject("message" :> "Not Found")))
    \/ \E m \in network : BadBody(m)
    \/ \E m \in network : \E n \in Served(RoutesUpstream, m) : PageBody(m, n)

RoutesNext ==
    \/ Listen
    \/ \E req \in RoutesRequests : DataRoute(1, req)
    \/ RoutesDeliver
    \/ Answer(1)
    \/ Finish(1)
    \/ Tick(TickMs)

SpecRoutes == StartupInit /\ [][RoutesNext]_vars

\* The upstream answers, and a handler whose await has settled goes on.
SpecRoutesFair == SpecRoutes /\ WF_vars(RoutesDeliver) /\ WF_vars(Answer(1))

\* The response that the outcome of the core call cr calls for.
ResponseFor(cr) ==
    IF cr.pc = "done"
    THEN [statusCode |-> 200, body |-> Collection(cr.req, cr.result)]
    ELSE [statusCode |-> 500,
          body |-> [error |-> "Internal Server Error",
                    message |-> cr.result.message,
                    statusCode |-> 500]]

\* A response is sent only for a core call that has settled, and it is the
\* one its outcome calls for; a settled call is followed by its response
\* and by nothing else; a response is followed by nothing more.
C35_OneResponsePerOutcome ==
    [][\A c \in Calls :
        /\ (calls'[c].pc = "replied" /\ calls[c].pc # "replied")
            => /\ calls[c].pc \in {"done", "failed"}
               /\ calls'[c].result = ResponseFor(calls[c])
        /\ (calls[c].pc \in {"done", "failed"} /\ calls'[c] # calls[c])
            => calls'[c].pc = "replied"
        /\ (calls[c].pc = "replied" /\ calls'[c] # calls[c])
            => calls'[c] = IdleCall]_vars

\* Every request that has arrived is answered.
C35_EveryRequestAnswered ==
    \A c \in Calls : (calls[c].pc # "idle") ~> (calls[c].pc = "replied")

(* C35: every failure of a core call made from a route handler (refusal at  *)
(* the gate, upstream error, undecodable body, missing credential) yields   *)
(* exactly one response with status 500 and an ApiError body carrying the   *)
(* error's message; a successful call yields exactly one 200 response with  *)
(* the collection; and, the upstream answering every fetch, no request is   *)
(* left without a response.                                                 *)
C35_ExactlyOneResponse == C35_OneResponsePerOutcome /\ C35_EveryRequestAnswered

\* The request found the gate closed and was answered 500 with the
\* rate-limit message.
C35_Witness ==
    /\ calls[1].pc = "replied"
    /\ calls[1].result.statusCode = 500
    /\ rateLimitInfo.remaining = 0
    /\ rateLimitInfo.reset > now
    /\ calls[1].issued = <<>>
    /\ calls[1].result.body.message =
            RateLimitMessage(Ceil(rateLimitInfo.reset - now, 1000))

----------------------------------------------------------------------------
\* The app holds no organization, no repositories, no selection and no
\* dashboard data.
Emptied(app) ==
    /\ app.organization = ""
    /\ app.repositories = <<>>
    /\ app.selectedRepos = <<>>
    /\ app.dashboardData = EmptyDashboardData

\* The user has submitted an organization and its request is in flight.
Submitted ==
    /\ browser.pending # None
    /\ browser.pending[1].kind = "repos"

\* A dashboard load is in flight.
LoadInFlight ==
    /\ browser.pending # None
    /\ browser.pending[1].kind = "dashboard"

(* C36: after 'Change Organization' (handleBackToOrg) the app is on the     *)
(* 'org-input' screen with empty organization, repositories, selection and  *)
(* dashboard data, and within the session it stays so until the user        *)
(* submits an organization, in every interleaving, a dashboard load that    *)
(* was in flight when the button was pressed included.                      *)
C36_StaysOnOrgInput ==
    [][browser'.session = browser.session =>
          /\ (browser.app.state # "org-input" /\ browser'.app.state = "org-input")
                => Emptied(browser'.app)
          /\ (browser.app.state = "org-input" /\ ~Submitted)
                => /\ browser'.app.state = "org-input"
                   /\ Emptied(browser'.app)]_vars

\* The case of the claim: the button was pressed while a dashboard load was
\* in flight.
C36_PressedDuringLoad ==
    /\ browser.app.state = "org-input"
    /\ Emptied(browser.app)
    /\ LoadInFlight

\* Without a load in flight the claim holds: the screen is left only by
\* the answer to a submitted organization.
C36_StaysWithoutLoad ==
    [][(browser'.session = browser.session /\ ~LoadInFlight) =>
          /\ (browser.app.state # "org-input" /\ browser'.app.state = "org-input")
                => Emptied(browser'.app)
          /\ (browser.app.state = "org-input" /\ ~Submitted)
                => /\ browser'.app.state = "org-input"
                   /\ Emptied(browser'.app)]_vars

----------------------------------------------------------------------------
(* Dashboard load: the requests of one fetchDashboardData call settle one  *)
(* by one, each with items, with an error status or by throwing            *)

\* The items the backend holds for a repository and a kind.
BackendItems(repo, kind) == <<[id |-> <<kind, repo.fullName, 1>>, type |-> kind]>>

\* The ways a request for the items of repo may settle.
Outcomes(repo, kind) ==
    {[ok |-> TRUE, thrown |-> FALSE, items |-> BackendItems(repo, kind)],
     [ok |-> FALSE, thrown |-> FALSE, items |-> <<>>],
     [ok |-> FALSE, thrown |-> TRUE, items |-> <<>>]}

LoadNext ==
    \/ \E org \in BrowserOrgs : HandleOrgSubmit(org)
    \/ \E org \in BrowserOrgs :
            \E repositories \in BrowserRepositories(org) : ReposResponse(TRUE, repositories)
    \/ \E repos \in Selections(browser.app.repositories) : HandleRepoSelection(repos)
    \/ \E i \in 1..2, k \in 1..3 :
            /\ LoadInFlight
            /\ i <= Len(browser.pending[1].repos)
            /\ \E outcome \in Outcomes(browser.pending[1].repos[i], ItemKinds[k]) :
                    ItemsResponse(i, ItemKinds[k], outcome)
    \/ LoadSettled
    \/ HandleBackToOrg
    \/ HandleBackToRepos
    \/ HandleRefresh

SpecLoad == Init /\ [][LoadNext]_vars

\* The items of the requests of the load that were answered with success,
\* in the order of the selection.
RECURSIVE SuccessfulItems(_, _, _)
SuccessfulItems(load, kind, n) ==
    IF n = 0 THEN <<>>
    ELSE SuccessfulItems(load, kind, n - 1)
         \o (IF \E r \in load.results : r.repo = n /\ r.kind = kind /\ r.ok
             THEN BackendItems(load.repos[n], kind) ELSE <<>>)

\* This step ends the load in flight.
LoadEnds ==
    /\ LoadInFlight
    /\ browser'.pending = None
    /\ browser'.session = browser.session

====
